---- MODULE Spec2Model ----
(***************************************************************************)
(* Model of the roster-analytics engine of Khoi8/fantastic:                *)
(*   calculateZScores  (utils/zScoreCalculator, src/unnamed/part_000)      *)
(*   calculateTrends   (src/src/utils/trendAnalysis.ts)                    *)
(*                                                                         *)
(* Numbers.  The code computes with IEEE doubles; the model computes with  *)
(* exact rationals <<n, d>> (d > 0, lowest terms).  A z value is kept as   *)
(* the pair [n, v] standing for n / sqrt(v), so that math.std's square     *)
(* root is never approximated.  toFixed(2) is modelled in hundredths; at   *)
(* an exact tie (x.xx5), and where a sum of square roots cannot be placed  *)
(* on one side of a tie, the model allows both neighbouring results,       *)
(* because the double the code holds there may lie on either side.         *)
(***************************************************************************)
EXTENDS Integers, Sequences, FiniteSets, TLC

-----------------------------------------------------------------------------
(* Exact rational arithmetic.                                              *)

Abs(x) == IF x < 0 THEN -x ELSE x

Sign(x) == IF x < 0 THEN -1 ELSE IF x > 0 THEN 1 ELSE 0

RECURSIVE GCD(_, _)
GCD(a, b) == IF b = 0 THEN a ELSE GCD(b, a % b)

Rat(n, d) ==
  LET g == GCD(Abs(n), Abs(d))
      s == IF d < 0 THEN -1 ELSE 1
  IN  <<(s * n) \div g, (s * d) \div g>>

RInt(k) == <<k, 1>>

\* Sums over the least common denominator, products after cross-cancelling,
\* so that intermediates stay small.
RAdd(a, b) ==
  LET g == GCD(a[2], b[2])
  IN  Rat(a[1] * (b[2] \div g) + b[1] * (a[2] \div g), (a[2] \div g) * b[2])

RNeg(a) == <<-a[1], a[2]>>

RSub(a, b) == RAdd(a, RNeg(b))

RMul(a, b) ==
  LET g1 == GCD(Abs(a[1]), b[2])
      g2 == GCD(Abs(b[1]), a[2])
  IN  IF a[1] = 0 \/ b[1] = 0 THEN <<0, 1>>
      ELSE <<(a[1] \div g1) * (b[1] \div g2), (a[2] \div g2) * (b[2] \div g1)>>

\* a / b for b # 0.
RDiv(a, b) == RMul(a, IF b[1] < 0 THEN <<-b[2], -b[1]>> ELSE <<b[2], b[1]>>)

RSign(a) == Sign(a[1])

RLess(a, b) == RSign(RSub(a, b)) < 0

RAbs(a) == <<Abs(a[1]), a[2]>>

\* floor and ceiling of a rational (\div rounds towards minus infinity).
RFloor(a) == a[1] \div a[2]

RCeil(a) == -((-a[1]) \div a[2])

\* The sum of the first n elements of s, and of all of them.
RECURSIVE RSumTo(_, _)
RSumTo(s, n) == IF n = 0 THEN RInt(0) ELSE RAdd(RSumTo(s, n - 1), s[n])

RSum(s) == RSumTo(s, Len(s))

\* floor(a * 10^k / b) and whether the division is exact, by long division
\* (a >= 0, b > 0), so that no intermediate exceeds 10 * b.
RECURSIVE LongDiv(_, _, _, _)
LongDiv(q, r, b, k) ==
  IF k = 0 THEN [q |-> q, exact |-> (r = 0)]
  ELSE LongDiv(q * 10 + ((r * 10) \div b), (r * 10) % b, b, k - 1)

ScaledFloor(a, b, k) == LongDiv(a \div b, a % b, b, k)

\* floor(sqrt(y)) for y >= 0, by bisection on lo..hi with lo^2 <= y.
RECURSIVE ISqrtIn(_, _, _)
ISqrtIn(y, lo, hi) ==
  IF lo >= hi THEN lo
  ELSE LET mid == (lo + hi + 1) \div 2
       IN  IF mid <= y \div mid THEN ISqrtIn(y, mid, hi)
           ELSE ISqrtIn(y, lo, mid - 1)

ISqrt(y) == IF y = 0 THEN 0 ELSE ISqrtIn(y, 1, IF y < 46340 THEN y ELSE 46340)

-----------------------------------------------------------------------------
(* toFixed(2) on a value known exactly or within a bracket.                *)

\* The hundredths n for which n / 100 can be the result of x.toFixed(2) when
\* lo <= x <= hi: the nearest hundredth, and both neighbours at a tie.
RoundChoices(lo, hi) ==
  LET a == RCeil(RSub(RMul(RInt(100), lo), <<1, 2>>))
      b == RFloor(RAdd(RMul(RInt(100), hi), <<1, 2>>))
  IN  a .. b

IsSquare(x) == ISqrt(x) * ISqrt(x) = x

\* A z value is [n, v], meaning n / sqrt(v) with v > 0: n is the weighted
\* distance from the mean and v the square of the baseline std.
ZSign(z) == RSign(z.n)

\* z^2 as a rational.
ZSquare(z) == RDiv(RMul(z.n, z.n), z.v)

ZIsRational(z) == z.n[1] = 0 \/ (IsSquare(z.v[1]) /\ IsSquare(z.v[2]))

\* The exact value of a z whose std is rational.
ZRational(z) ==
  IF z.n[1] = 0 THEN RInt(0)
  ELSE RDiv(z.n, <<ISqrt(z.v[1]), ISqrt(z.v[2])>>)

ZLess(y, z) ==
  IF ZSign(y) # ZSign(z) THEN ZSign(y) < ZSign(z)
  ELSE IF ZSign(y) >= 0 THEN RLess(ZSquare(y), ZSquare(z))
  ELSE RLess(ZSquare(z), ZSquare(y))

\* parseFloat(z.toFixed(2)) in hundredths, exactly: with s = floor(200 |z|)
\* the nearest hundredth to |z| is (s + 1) \div 2.
ScoreChoices(z) ==
  LET q    == ZSquare(z)
      y    == ScaledFloor(4 * q[1], q[2], 4)
      s    == ISqrt(y.q)
      k    == (s + 1) \div 2
      tie  == y.exact /\ s * s = y.q /\ s % 2 = 1
  IN  IF ZSign(z) = 0 THEN {0}
      ELSE IF tie THEN {ZSign(z) * (k - 1), ZSign(z) * k}
      ELSE {ZSign(z) * k}

\* A bracket [lo, hi] of rationals around z: z itself when it is rational,
\* else floor and ceiling of |z| at 10^-k, with k as large as the integer
\* square root allows.
ZBracket(z) ==
  IF ZIsRational(z) THEN [lo |-> ZRational(z), hi |-> ZRational(z)]
  ELSE
    LET q  == ZSquare(z)
        ip == q[1] \div q[2]
        k  == IF ip < 20 THEN 4 ELSE IF ip < 2000 THEN 3 ELSE 2
        p  == IF k = 4 THEN 10000 ELSE IF k = 3 THEN 1000 ELSE 100
        t  == ISqrt(ScaledFloor(q[1], q[2], 2 * k).q)
    IN  IF ZSign(z) > 0 THEN [lo |-> Rat(t, p), hi |-> Rat(t + 1, p)]
        ELSE [lo |-> Rat(-(t + 1), p), hi |-> Rat(-t, p)]

\* parseFloat(totalZ.toFixed(2)) in hundredths, totalZ being the sum of zs.
TotalChoices(zs) ==
  IF Len(zs) = 1 THEN ScoreChoices(zs[1])
  ELSE LET br == [i \in DOMAIN zs |-> ZBracket(zs[i])]
           lo == RSum([i \in DOMAIN zs |-> br[i].lo])
           hi == RSum([i \in DOMAIN zs |-> br[i].hi])
       IN  RoundChoices(lo, hi)

-----------------------------------------------------------------------------
(* zScoreCalculator: configuration.                                        *)

SETTINGS_TO_STATS_MAP ==
  [pts |-> "pts", reb |-> "reb", ast |-> "ast", st |-> "stl", stl |-> "stl",
   blk |-> "blk", to |-> "to", turnovers |-> "to", fg3m |-> "fg3m",
   tpm |-> "fg3m", fg_pct |-> "calculated_fg", ft_pct |-> "calculated_ft",
   fg3_pct |-> "calculated_3pt", ast_to |-> "ast_to"]

PURE_RATIO_STATS == {"ast_to", "stl_to"}

IMPACT_STATS == {"calculated_fg", "calculated_ft", "calculated_3pt"}

IGNORED_KEYS ==
  {"bonus_ast_15p", "bonus_pt_40p", "bonus_pt_50p", "bonus_reb_20p", "qd"}

\* Number(p[k] || 0): a field the record lacks reads as 0.
Field(p, k) == IF k \in DOMAIN p THEN p[k] ELSE 0

getSplitStats(player, type) ==
  IF type = "fg" THEN [m |-> Field(player, "fgm"), a |-> Field(player, "fga")]
  ELSE IF type = "ft" THEN [m |-> Field(player, "ftm"), a |-> Field(player, "fta")]
  ELSE IF type = "3pt" THEN [m |-> Field(player, "fg3m"), a |-> Field(player, "fg3a")]
  ELSE [m |-> 0, a |-> 0]

ImpactType(statKey) ==
  IF statKey = "calculated_fg" THEN "fg"
  ELSE IF statKey = "calculated_ft" THEN "ft" ELSE "3pt"

-----------------------------------------------------------------------------
(* zScoreCalculator: calculateZScores.                                     *)
(* scoringSettings is the sequence of the object's entries [key, weight]   *)
(* in key order; leagueRosters a sequence of records [roster_id, players], *)
(* where the players field may be missing; allStats maps the ids it has an *)
(* entry for to their records (allStats[id] is undefined for the others).  *)

\* The map f restricted to the keys D, built entry by entry.
RECURSIVE MapOf(_, _)
MapOf(f, D) ==
  IF D = {} THEN <<>>
  ELSE LET x == CHOOSE y \in D : TRUE
       IN  (x :> f[x]) @@ MapOf(f, D \ {x})

\* The maps with keys D whose value at x is any element of c[x].
RECURSIVE MapsOf(_, _)
MapsOf(c, D) ==
  IF D = {} THEN {<<>>}
  ELSE LET x == CHOOSE y \in D : TRUE
           cx == c[x]
           rest == MapsOf(c, D \ {x})
       IN  {(x :> v) @@ r : v \in cx, r \in rest}

\* 1. Identify Active Categories
IsActiveSettingKeepsZero(e) == e.key \notin IGNORED_KEYS

IsActiveSetting(e) == e.weight # 0 /\ e.key \notin IGNORED_KEYS

ToCat(e) ==
  [settingKey |-> e.key,
   statKey |-> IF e.key \in DOMAIN SETTINGS_TO_STATS_MAP
               THEN SETTINGS_TO_STATS_MAP[e.key] ELSE e.key,
   weight |-> e.weight]

HasStatKey(cat) == cat.statKey # ""

ActiveCats(settings) ==
  LET kept == SelectSeq(settings, IsActiveSetting)
  IN  SelectSeq([i \in DOMAIN kept |-> ToCat(kept[i])], HasStatKey)

\* 2. Build Population
RECURSIVE PopulationIds(_)
PopulationIds(rosters) ==
  IF rosters = <<>> THEN <<>>
  ELSE (IF "players" \in DOMAIN Head(rosters) THEN Head(rosters).players ELSE <<>>)
       \o PopulationIds(Tail(rosters))

\* 3. Extract Stats
InPopulation(stats, id) == id \in DOMAIN stats /\ stats[id].gp > 0

PopulationStats(ids, stats) ==
  LET Known(id) == InPopulation(stats, id)
      kept == SelectSeq(ids, Known)
  IN  [i \in DOMAIN kept |-> stats[kept[i]]]

\* 4. Calculate League Baselines
LeagueAvgPct(cat, pop) ==
  IF cat.statKey \in IMPACT_STATS
  THEN LET type   == ImpactType(cat.statKey)
           totalM == RSum([i \in DOMAIN pop |-> RInt(getSplitStats(pop[i], type).m)])
           totalA == RSum([i \in DOMAIN pop |-> RInt(getSplitStats(pop[i], type).a)])
       IN  IF RSign(totalA) > 0 THEN RDiv(totalM, totalA) ELSE RInt(0)
  ELSE RInt(0)

\* As CatValue, with the naive shooting percentage for an Impact category.
CatValueRawPct(cat, p, avgPct) ==
  IF cat.statKey \in IMPACT_STATS
  THEN LET ms == getSplitStats(p, ImpactType(cat.statKey))
       IN  RSub(IF ms.a = 0 THEN RInt(0) ELSE Rat(ms.m, ms.a), avgPct)
  ELSE IF cat.statKey \in PURE_RATIO_STATS THEN RInt(Field(p, cat.statKey))
  ELSE Rat(Field(p, cat.statKey), p.gp)

\* The category value of one stats record, given the league make rate.
CatValue(cat, p, avgPct) ==
  IF cat.statKey \in IMPACT_STATS
  THEN LET ms == getSplitStats(p, ImpactType(cat.statKey))
           pgMade == Rat(ms.m, p.gp)
           pgAtt  == Rat(ms.a, p.gp)
       IN  RSub(pgMade, RMul(pgAtt, avgPct))
  ELSE IF cat.statKey \in PURE_RATIO_STATS THEN RInt(Field(p, cat.statKey))
  ELSE Rat(Field(p, cat.statKey), p.gp)

\* mathjs mean(values).
mean(values) == RDiv(RSum(values), RInt(Len(values)))

\* The square of mathjs std(values): std is called without a normalization
\* argument, so mathjs uses its default 'unbiased': the squared deviations
\* are divided by n - 1, and a single value has variance 0.
stdSquared(values) ==
  LET m == mean(values)
      dev == [i \in DOMAIN values |-> RSub(values[i], m)]
  IN  IF Len(values) = 1 THEN RInt(0)
      ELSE RDiv(RSum([i \in DOMAIN values |-> RMul(dev[i], dev[i])]),
                RInt(Len(values) - 1))

\* As Baseline, with a zero std floored to 1/2 instead of 1.
BaselineFloorHalf(cat, pop) ==
  LET avgPct == LeagueAvgPct(cat, pop)
      values == [i \in DOMAIN pop |-> CatValue(cat, pop[i], avgPct)]
      sq     == stdSquared(values)
  IN  [avg |-> mean(values),
       stdSq |-> IF sq[1] = 0 THEN <<1, 4>> ELSE sq,
       computedStdSq |-> sq,
       avgPct |-> avgPct,
       n |-> Len(values)]

\* leagueMath[cat.settingKey]; stdSq is the square of the std field, whose
\* floor "stdDev === 0 ? 1 : stdDev" becomes 0 -> 1 on the square.
Baseline(cat, pop) ==
  LET avgPct == LeagueAvgPct(cat, pop)
      values == [i \in DOMAIN pop |-> CatValue(cat, pop[i], avgPct)]
      sq     == stdSquared(values)
  IN  [avg |-> mean(values),
       stdSq |-> IF sq[1] = 0 THEN RInt(1) ELSE sq,
       computedStdSq |-> sq,
       avgPct |-> avgPct,
       n |-> Len(values)]

CatKeys(cats) == {cats[i].settingKey : i \in DOMAIN cats}

\* The keys of an object are distinct: one category per setting key.
CatOfKey(cats, k) == cats[CHOOSE i \in DOMAIN cats : cats[i].settingKey = k]

LeagueMath(cats, pop) ==
  MapOf([k \in CatKeys(cats) |-> Baseline(CatOfKey(cats, k), pop)], CatKeys(cats))

\* As WeightedZ, without the sign flip for a negative weight.
WeightedZNoFlip(cat, pStats, math) ==
  LET val == CatValue(cat, pStats, math.avgPct)
      raw == RSub(val, math.avg)
  IN  [n |-> RMul(raw, RInt(Abs(cat.weight))), v |-> math.stdSq]

\* 5. Calculate Z-Scores: the unrounded z of one player in one category.
WeightedZ(cat, pStats, math) ==
  LET val  == CatValue(cat, pStats, math.avgPct)
      raw  == RSub(val, math.avg)
      flip == IF cat.weight < 0 THEN RNeg(raw) ELSE raw
  IN  [n |-> RMul(flip, RInt(Abs(cat.weight))), v |-> math.stdSq]

\* The ids that get an entry: "if (!pStats || !pStats.gp) return".
ResultIds(ids, stats) ==
  {ids[i] : i \in {j \in DOMAIN ids : ids[j] \in DOMAIN stats /\ stats[ids[j]].gp # 0}}

\* The unrounded z values of every player with an entry, by category key.
UnroundedZ(cats, ids, stats, lm) ==
  LET K == CatKeys(cats)
      R == ResultIds(ids, stats)
  IN  MapOf([id \in R |->
               MapOf([k \in K |-> WeightedZ(CatOfKey(cats, k), stats[id], lm[k])], K)], R)

\* totalZ accumulates the unrounded z of every active category in order.
TotalTerms(cats, zs) == [i \in DOMAIN cats |-> zs[cats[i].settingKey]]

\* const name = pStats.player_name || 'Unknown Player'
NameOf(pStats) ==
  IF "player_name" \in DOMAIN pStats THEN pStats.player_name ELSE "Unknown Player"

\* As EntryChoices, with totalZ accumulated from the rounded scores.
EntryChoicesRoundedSum(cats, pStats, zs) ==
  LET K == CatKeys(cats)
      RECURSIVE SumScores(_, _)
      SumScores(f, n) == IF n = 0 THEN 0 ELSE SumScores(f, n - 1) + f[cats[n].settingKey]
  IN  {[name |-> NameOf(pStats), scores |-> f, totalZ |-> SumScores(f, Len(cats))] :
         f \in MapsOf([k \in K |-> ScoreChoices(zs[k])], K)}

\* The entries result[id] can hold: scores[k] = parseFloat(z.toFixed(2)) and
\* totalZ = parseFloat(totalZ.toFixed(2)), in hundredths.  With one category
\* totalZ and the score are the same double, so they round alike.
EntryChoices(cats, pStats, zs) ==
  LET K == CatKeys(cats)
      scoreFns == MapsOf([k \in K |-> ScoreChoices(zs[k])], K)
  IN  {[name |-> NameOf(pStats), scores |-> f, totalZ |-> t] :
         <<f, t>> \in {c \in scoreFns \X TotalChoices(TotalTerms(cats, zs)) :
                         Len(cats) = 1 => c[2] = c[1][cats[1].settingKey]}}

\* The maps calculateZScores can return past its early returns.
ResultChoices(cats, stats, uz) ==
  MapsOf([id \in DOMAIN uz |-> EntryChoices(cats, stats[id], uz[id])], DOMAIN uz)

EmptyMap == <<>>

-----------------------------------------------------------------------------
(* State.                                                                  *)

VARIABLES
  leagueRosters,    \* calculateZScores: argument
  allStats,         \* calculateZScores: argument
  scoringSettings,  \* calculateZScores: argument
  zPc,              \* "input" before the call, "done" after it returned
  leagueMath,       \* calculateZScores: local, baselines by setting key
  unroundedZ,       \* calculateZScores: local z before toFixed, by id and key
  zResult           \* calculateZScores: returned map

VARIABLES
  seasonZScores,    \* calculateTrends: argument, the entries in key order
  recentZScores,    \* calculateTrends: argument
  seasonStats,      \* calculateTrends: argument
  recentStats,      \* calculateTrends: argument
  tPc,              \* "input" before the call, "done" after it returned
  trendAnalysis     \* calculateTrends: returned object

VARIABLES
  streamingInput,   \* buildStreamingPlan: argument (StreamingInput)
  now,              \* the clock new Date() reads, in milliseconds
  streamingPlans    \* the plans the calls of buildStreamingPlan returned

VARIABLES
  myRosterId,        \* recommendTrades: argument
  tradeRosters,      \* recommendTrades: argument leagueRosters
  tradeZScores,      \* recommendTrades: argument playerZScores
  needCategory,      \* recommendTrades: argument
  spareCategory,     \* recommendTrades: argument
  ownerDisplayNames, \* recommendTrades: argument
  rPc,               \* "input" before the call, "done" after it returned
  tradeRecommendations \* recommendTrades: returned array

VARIABLES
  playerStats,        \* calculateConsistency: argument, [given, stats]
  kPc,                \* "input" before the call, "done" after it returned
  consistencyMetrics  \* calculateConsistency: returned object

VARIABLES
  viewRosters,      \* RosterView: prop allRosters
  viewSettings,     \* RosterView: prop scoringSettings, [given, data]
  viewStats,        \* loadPlayers: what getCachedNBAStats resolved to
  viewRecentStats,  \* loadPlayers: what getCachedRecentStats resolved to
  viewPlayersMap,   \* loadPlayers: playersMap
  vPc,              \* "start", "recent" after the season z-scores, "done"
  viewSeasonMath,   \* leagueMath of the season call of calculateZScores
  viewRecentMath,   \* leagueMath of the recent-window call
  viewZScores,      \* RosterView state playerZScores
  viewTrends        \* RosterView state playerTrends

vVars == <<viewRosters, viewSettings, viewStats, viewRecentStats, viewPlayersMap, vPc,
           viewSeasonMath, viewRecentMath, viewZScores, viewTrends>>

VARIABLES
  cacheKind,    \* which of the four caches the run is about
  storedData,   \* idb-keyval: the value under the data key
  storedTs,     \* idb-keyval: the value under the timestamp key, in hours
  cacheNow,     \* the clock Date.now() reads, in ticks
  callPc,       \* where the call of the get function stands
  fetched,      \* the call's local stats / players / allPlayers
  netFailed,    \* whether the call's network request failed
  callResult,   \* what the call returned, "pending" before
  lastOp,       \* whether the call's last idb-keyval operation threw
  clearPc       \* where the call of the clear function stands

cVars == <<cacheKind, storedData, storedTs, cacheNow, callPc, fetched, netFailed,
           callResult, lastOp, clearPc>>

VARIABLES
  mounted,        \* StreamingPlanner is mounted
  inputs,         \* the number of the props of the latest render
  isReady,        \* StreamingPlanner: isReady of the latest render
  effectPending,  \* a render changed the effect's dependencies
  effectRuns,     \* how many times the effect has run
  loads,          \* the calls of loadPlan: [run, inputs, isMounted, stage]
  plan,           \* StreamingPlanner state plan
  error,          \* StreamingPlanner state error
  loading         \* StreamingPlanner state loading

pVars == <<mounted, inputs, isReady, effectPending, effectRuns, loads, plan, error, loading>>

zVars == <<leagueRosters, allStats, scoringSettings, zPc, leagueMath, unroundedZ, zResult>>

tVars == <<seasonZScores, recentZScores, seasonStats, recentStats, tPc, trendAnalysis>>

kVars == <<playerStats, kPc, consistencyMetrics>>

sVars == <<streamingInput, now, streamingPlans>>

rVars == <<myRosterId, tradeRosters, tradeZScores, needCategory, spareCategory,
           ownerDisplayNames, rPc, tradeRecommendations>>

vars == <<zVars, tVars, sVars, rVars, kVars, vVars, cVars, pVars>>

-----------------------------------------------------------------------------
(* Inputs of calculateZScores.                                             *)

PlayerIds == {"p1", "p2", "p3"}

\* The most player listings a league's rosters hold together.
MaxListings == 3

SeqsUpTo(S, n) == UNION {[1 .. k -> S] : k \in 0 .. n}

RECURSIVE Listings(_)
Listings(rosters) ==
  IF rosters = <<>> THEN 0
  ELSE (IF "players" \in DOMAIN Head(rosters) THEN Len(Head(rosters).players) ELSE 0)
       + Listings(Tail(rosters))

\* Leagues of at most two rosters; a roster may lack its players field.
RosterChoices(i) ==
  {[roster_id |-> i]}
    \cup {[roster_id |-> i, players |-> ps] : ps \in SeqsUpTo(PlayerIds, MaxListings)}

RosterLists ==
  {rs \in {<<>>} \cup {<<r>> : r \in RosterChoices(1)}
          \cup {<<r, q>> : r \in RosterChoices(1), q \in RosterChoices(2)} :
     Listings(rs) <= MaxListings}

StatA == [gp |-> 1, player_name |-> "A", pts |-> 10, to |-> 1, fgm |-> 1, fga |-> 2, ast_to |-> 2]

StatB == [gp |-> 1, player_name |-> "B", pts |-> 7, to |-> 3, fgm |-> 2, fga |-> 4]

StatC == [gp |-> 2, pts |-> 20, to |-> 2, fgm |-> 0, fga |-> 2, ast_to |-> 1]

StatZeroGp == [gp |-> 0, pts |-> 0]

StatNegGp == [gp |-> -1, pts |-> 5, to |-> 3, fga |-> 1]

StatPalette == {StatA, StatB, StatC, StatZeroGp, StatNegGp}

\* Every map from some of the ids to a record of the palette.
StatsChoices == UNION {[ids -> StatPalette] : ids \in SUBSET PlayerIds}

Entry(k, w) == [key |-> k, weight |-> w]

SettingsChoices ==
  { <<>>,
    <<Entry("to", -1)>>,
    <<Entry("pts", 1), Entry("to", -1)>>,
    <<Entry("fg_pct", 1)>>,
    <<Entry("pts", 2), Entry("blk", 0), Entry("qd", 1), Entry("fg_pct", -1)>>,
    <<Entry("qd", 1), Entry("bonus_pt_40p", 2)>>,
    <<Entry("pts", 0), Entry("to", 0)>>,
    <<Entry("ast_to", 1), Entry("turnovers", -2), Entry("fg_pct", 2)>>,
    <<Entry("st", 1), Entry("pts", -1)>>,
    <<Entry("to", 2), Entry("fg_pct", 1), Entry("pts", 1)>> }

\* Leagues of every shape (repeated listings, rosters without players, ids
\* without stats, gp of 0 or below) under one scoring configuration.
OwnStat == [p1 |-> StatA, p2 |-> StatB, p3 |-> StatC]

ShapeStatsChoices ==
  UNION {{[id \in ids |-> IF id \in zero THEN StatZeroGp
                          ELSE IF id \in neg THEN StatNegGp ELSE OwnStat[id]] :
            zero \in SUBSET ids, neg \in SUBSET ids} : ids \in SUBSET PlayerIds}

LeagueShapeInputs ==
  /\ leagueRosters \in RosterLists
  /\ allStats \in ShapeStatsChoices
  /\ scoringSettings = <<Entry("pts", 1), Entry("to", -1)>>

\* Every stat line for every player under every scoring configuration, in
\* leagues that list each player once.
StatLineInputs ==
  /\ leagueRosters \in
       { <<[roster_id |-> 1, players |-> <<"p1", "p2", "p3">>]>>,
         <<[roster_id |-> 1, players |-> <<"p2", "p1">>],
           [roster_id |-> 2, players |-> <<"p3">>]>> }
  /\ allStats \in StatsChoices
  /\ scoringSettings \in SettingsChoices

\* No call of calculateTrends is under way.
IdleT ==
  /\ seasonZScores = <<>>
  /\ recentZScores = EmptyMap
  /\ seasonStats = EmptyMap
  /\ recentStats = EmptyMap
  /\ tPc = "idle"
  /\ trendAnalysis = EmptyMap

\* No call of calculateZScores is under way.
IdleZ ==
  /\ leagueRosters = <<>>
  /\ allStats = EmptyMap
  /\ scoringSettings = <<>>
  /\ zPc = "idle"
  /\ leagueMath = EmptyMap
  /\ unroundedZ = EmptyMap
  /\ zResult = EmptyMap

\* No call of calculateConsistency is under way.
IdleK ==
  /\ playerStats = EmptyMap
  /\ kPc = "idle"
  /\ consistencyMetrics = EmptyMap

\* RosterView.loadPlayers is not running.
IdleV ==
  /\ viewRosters = <<>>
  /\ viewSettings = EmptyMap
  /\ viewStats = EmptyMap
  /\ viewRecentStats = EmptyMap
  /\ viewPlayersMap = EmptyMap
  /\ vPc = "idle"
  /\ viewSeasonMath = EmptyMap
  /\ viewRecentMath = EmptyMap
  /\ viewZScores = EmptyMap
  /\ viewTrends = EmptyMap

\* No cache is in use.
IdleC ==
  /\ cacheKind = ""
  /\ storedData = "none"
  /\ storedTs = 0
  /\ cacheNow = 0
  /\ callPc = "off"
  /\ fetched = "none"
  /\ netFailed = FALSE
  /\ callResult = "pending"
  /\ lastOp = "none"
  /\ clearPc = "off"

\* No StreamingPlanner is rendered.
IdleP ==
  /\ mounted = FALSE
  /\ inputs = 0
  /\ isReady = FALSE
  /\ effectPending = FALSE
  /\ effectRuns = 0
  /\ loads = <<>>
  /\ plan = EmptyMap
  /\ error = EmptyMap
  /\ loading = FALSE

\* No call of buildStreamingPlan was made.
IdleS ==
  /\ streamingInput = EmptyMap
  /\ now = 0
  /\ streamingPlans = <<>>

\* No call of recommendTrades is under way.
IdleR ==
  /\ myRosterId = 0
  /\ tradeRosters = <<>>
  /\ tradeZScores = EmptyMap
  /\ needCategory = ""
  /\ spareCategory = ""
  /\ ownerDisplayNames = EmptyMap
  /\ rPc = "idle"
  /\ tradeRecommendations = <<>>

InitZ ==
  /\ LeagueShapeInputs \/ StatLineInputs
  /\ zPc = "input"
  /\ leagueMath = EmptyMap
  /\ unroundedZ = EmptyMap
  /\ zResult = EmptyMap
  /\ IdleT
  /\ IdleS
  /\ IdleR
  /\ IdleK
  /\ IdleV
  /\ IdleC
  /\ IdleP

-----------------------------------------------------------------------------
(* calculateZScores as one step.                                           *)

\* As EarlyReturn, without the return for an empty population.
EarlyReturnCatsOnly(activeCats, populationStats) == Len(activeCats) = 0

\* "if (activeCats.length === 0) return {}" and
\* "if (populationStats.length === 0) return {}"
EarlyReturn(activeCats, populationStats) ==
  Len(activeCats) = 0 \/ Len(populationStats) = 0

\* mathjs mean and std throw on an empty array.
MathThrows(populationStats) == Len(populationStats) = 0

CalculateZScores ==
  /\ zPc = "input"
  /\ LET activeCats      == ActiveCats(scoringSettings)
         populationIds   == PopulationIds(leagueRosters)
         populationStats == PopulationStats(populationIds, allStats)
     IN  IF EarlyReturn(activeCats, populationStats)
         THEN /\ zPc' = "done"
              /\ leagueMath' = EmptyMap
              /\ unroundedZ' = EmptyMap
              /\ zResult' = EmptyMap
         ELSE IF MathThrows(populationStats)
         THEN /\ zPc' = "threw"
              /\ UNCHANGED <<leagueMath, unroundedZ, zResult>>
         ELSE LET lm == LeagueMath(activeCats, populationStats)
                  uz == UnroundedZ(activeCats, populationIds, allStats, lm)
              IN  /\ zPc' = "done"
                  /\ leagueMath' = lm
                  /\ unroundedZ' = uz
                  /\ zResult' \in ResultChoices(activeCats, allStats, uz)
  /\ UNCHANGED <<leagueRosters, allStats, scoringSettings>>

NextZ == CalculateZScores /\ UNCHANGED <<tVars, sVars, rVars, kVars, vVars, cVars, pVars>>

SpecZ == InitZ /\ [][NextZ]_vars

-----------------------------------------------------------------------------
(* Properties of calculateZScores.                                         *)

\* The ids listed in some roster.
ListedIds ==
  {leagueRosters[i].players[j] :
     <<i, j>> \in {x \in (DOMAIN leagueRosters) \X (1 .. MaxListings + 1) :
                     /\ "players" \in DOMAIN leagueRosters[x[1]]
                     /\ x[2] <= Len(leagueRosters[x[1]].players)}}

\* The listed ids with a stats record of gp > 0.
QualifyingIds == {id \in ListedIds : id \in DOMAIN allStats /\ allStats[id].gp > 0}

\* The settings keys with a non-zero weight that are not on the ignore list.
ConfiguredKeys ==
  {scoringSettings[i].key :
     i \in {j \in DOMAIN scoringSettings :
              /\ scoringSettings[j].weight # 0
              /\ scoringSettings[j].key \notin IGNORED_KEYS}}

WeightOf(k) ==
  scoringSettings[CHOOSE i \in DOMAIN scoringSettings : scoringSettings[i].key = k].weight

Returned == zPc = "done"

\* Nobody is listed twice and no record has a negative gp.
PlainLeague ==
  /\ Len(PopulationIds(leagueRosters)) = Cardinality(ListedIds)
  /\ \A id \in DOMAIN allStats : allStats[id].gp >= 0

\* C1: with an active category and a qualifying player, the result has an
\* entry for an id iff the id is listed in a roster and has a stats record
\* with gp > 0.
C1_EntryIffQualifying ==
  (Returned /\ ConfiguredKeys # {} /\ QualifyingIds # {})
    => DOMAIN zResult = QualifyingIds

\* One record per qualifying id, in some order.
RECURSIVE SeqOfSet(_)
SeqOfSet(S) ==
  IF S = {} THEN <<>>
  ELSE LET x == CHOOSE y \in S : TRUE IN <<x>> \o SeqOfSet(S \ {x})

DistinctPopulation == PopulationStats(SeqOfSet(QualifyingIds), allStats)

\* C2: the baselines are those of the set of qualifying players: an id
\* listed more than once contributes one record to mean, std and totals.
C2_PopulationSetSemantics ==
  Returned =>
    \A k \in DOMAIN leagueMath :
      LET once == Baseline(CatOfKey(ActiveCats(scoringSettings), k), DistinctPopulation)
      IN  /\ leagueMath[k].avg = once.avg
          /\ leagueMath[k].stdSq = once.stdSq
          /\ leagueMath[k].avgPct = once.avgPct

\* The variance with divisor N of the category values of the population.
PopulationVariance(k) ==
  LET cat == CatOfKey(ActiveCats(scoringSettings), k)
      pop == PopulationStats(PopulationIds(leagueRosters), allStats)
      values == [i \in DOMAIN pop |-> CatValue(cat, pop[i], leagueMath[k].avgPct)]
      dev == [i \in DOMAIN values |-> RSub(values[i], leagueMath[k].avg)]
  IN  RDiv(RSum([i \in DOMAIN values |-> RMul(dev[i], dev[i])]), RInt(Len(values)))

\* C3: in a league without repeated listings, every baseline std is the
\* population standard deviation; so two players with 1.0 and 3.0 turnovers
\* per game under {to: -1} score +1.00 and -1.00.
C3_PopulationStd ==
  (Returned /\ PlainLeague) =>
    /\ \A k \in DOMAIN leagueMath : leagueMath[k].computedStdSq = PopulationVariance(k)
    /\ \A a, b \in DOMAIN zResult :
         ( /\ DOMAIN zResult = {a, b}
           /\ scoringSettings = <<Entry("to", -1)>>
           /\ Rat(Field(allStats[a], "to"), allStats[a].gp) = RInt(1)
           /\ Rat(Field(allStats[b], "to"), allStats[b].gp) = RInt(3) )
         => (zResult[a].scores["to"] = 100 /\ zResult[b].scores["to"] = -100)

\* The value of player id in category k, against the baseline's make rate.
ValueOf(id, k) ==
  CatValue(CatOfKey(ActiveCats(scoringSettings), k), allStats[id], leagueMath[k].avgPct)

RECURSIVE SumOver(_, _)
SumOver(f, K) ==
  IF K = {} THEN 0
  ELSE LET k == CHOOSE x \in K : TRUE IN f[k] + SumOver(f, K \ {k})

\* The unrounded z values of id over the keys K, in settings order.
TermsOver(id, K) ==
  LET keys == SelectSeq([i \in DOMAIN scoringSettings |-> scoringSettings[i].key],
                        LAMBDA k : k \in K)
  IN  [i \in DOMAIN keys |-> unroundedZ[id][keys[i]]]

\* C5: totalZ is the sum of the unrounded category z values, rounded to 2
\* decimals once.
C5_TotalRoundedOnce ==
  Returned =>
    \A id \in DOMAIN zResult :
      zResult[id].totalZ \in TotalChoices(TermsOver(id, DOMAIN unroundedZ[id]))

\* ... and that differs from the sum of the stored scores for some input.
C5_Witness ==
  /\ Returned
  /\ \E id \in DOMAIN zResult :
       /\ Cardinality(DOMAIN zResult[id].scores) >= 2
       /\ Cardinality(TotalChoices(TermsOver(id, DOMAIN unroundedZ[id]))) = 1
       /\ zResult[id].totalZ # SumOver(zResult[id].scores, DOMAIN zResult[id].scores)

\* C6: the keys of every scores map are exactly the settings keys with a
\* non-zero weight that are not ignored, and totalZ is made of those alone.
C6_ScoresKeysAreActive ==
  Returned =>
    \A id \in DOMAIN zResult :
      /\ DOMAIN zResult[id].scores = ConfiguredKeys
      /\ zResult[id].totalZ \in TotalChoices(TermsOver(id, ConfiguredKeys))

C6_Witness ==
  /\ Returned
  /\ zResult # EmptyMap
  /\ \E i, j \in DOMAIN scoringSettings :
       /\ scoringSettings[i].weight = 0
       /\ scoringSettings[j].key \in IGNORED_KEYS /\ scoringSettings[j].weight # 0
       /\ \A id \in DOMAIN zResult :
            {scoringSettings[i].key, scoringSettings[j].key} \cap DOMAIN zResult[id].scores = {}

\* C7: where the computed std of a category is 0 the baseline std is 1 and
\* every unrounded z is (value - mean) x |weight|, negated under a negative
\* weight.
C7_ZeroStdFlooredToOne ==
  Returned =>
    \A k \in DOMAIN leagueMath :
      leagueMath[k].computedStdSq = RInt(0) =>
        /\ leagueMath[k].stdSq = RInt(1)
        /\ \A id \in DOMAIN unroundedZ :
             LET d == RMul(RSub(ValueOf(id, k), leagueMath[k].avg), RInt(Abs(WeightOf(k))))
             IN  /\ ZIsRational(unroundedZ[id][k])
                 /\ ZRational(unroundedZ[id][k]) = IF WeightOf(k) < 0 THEN RNeg(d) ELSE d

C7_Witness ==
  /\ Returned
  /\ \E k \in DOMAIN leagueMath :
       /\ leagueMath[k].computedStdSq = RInt(0)
       /\ Len(PopulationStats(PopulationIds(leagueRosters), allStats)) >= 2
       /\ \E id \in DOMAIN unroundedZ : ZSign(unroundedZ[id][k]) # 0

\* The league make rate of the population for a made/attempted pair.
MakeRate(type) ==
  LET made == SumOver([id \in QualifyingIds |-> getSplitStats(allStats[id], type).m], QualifyingIds)
      att  == SumOver([id \in QualifyingIds |-> getSplitStats(allStats[id], type).a], QualifyingIds)
  IN  IF att > 0 THEN Rat(made, att) ELSE RInt(0)

ImpactKeys == {"fg_pct", "ft_pct", "fg3_pct"}

TypeOfKey(k) == IF k = "fg_pct" THEN "fg" ELSE IF k = "ft_pct" THEN "ft" ELSE "3pt"

C9_EmptyResult ==
  (zPc # "input" /\ (ConfiguredKeys = {} \/ QualifyingIds = {}))
    => (zPc = "done" /\ zResult = EmptyMap)

C9_Witness ==
  /\ Returned
  /\ ConfiguredKeys # {}
  /\ ListedIds # {}
  /\ QualifyingIds = {}
  /\ zResult = EmptyMap

-----------------------------------------------------------------------------
(* trendAnalysis: calculateTrends.                                         *)
(* totalZ values are in hundredths and confidence scores in tenths.        *)
(* seasonZScores is the sequence of the object's entries in key order,     *)
(* each [playerId, name, totalZ]; recentZScores maps ids to entries;       *)
(* seasonStats and recentStats map ids to records that may hold a gp.      *)

BUY_LOW_THRESHOLD == -150

SELL_HIGH_THRESHOLD == 150

\* stats[playerId]?.gp || 0
GpOf(stats, playerId) ==
  IF playerId \in DOMAIN stats /\ "gp" \in DOMAIN stats[playerId]
  THEN stats[playerId].gp ELSE 0

Min(a, b) == IF RLess(b, a) THEN b ELSE a

\* recentConfidence * 0.6 + magnitudeConfidence * 0.4
ConfidenceOf(recentGP, seasonGP, zDifference) ==
  LET recentConfidence ==
        Min(RInt(100), RMul(Rat(recentGP, IF seasonGP > 1 THEN seasonGP ELSE 1), RInt(100)))
      magnitudeConfidence == Min(RInt(100), Rat(Abs(zDifference), 10))
  IN  RAdd(RMul(recentConfidence, <<3, 5>>), RMul(magnitudeConfidence, <<2, 5>>))

\* parseFloat(x.toFixed(1)) in tenths; both neighbours at a tie.
TenthsChoices(x) ==
  RCeil(RSub(RMul(RInt(10), x), <<1, 2>>)) .. RFloor(RAdd(RMul(RInt(10), x), <<1, 2>>))

\* A variant that tests the DECLINE and BREAKOUT rules ahead of BUY_LOW and
\* SELL_HIGH.
TrendStatusTrendFirst(seasonTotalZ, recentTotalZ) ==
  LET zDifference == recentTotalZ - seasonTotalZ
  IN  IF recentTotalZ > seasonTotalZ + 100 /\ seasonTotalZ < 50
      THEN [status |-> "BREAKOUT", reasoning |-> "Trending up significantly"]
      ELSE IF recentTotalZ < seasonTotalZ - 100 /\ seasonTotalZ > 50
      THEN [status |-> "DECLINE", reasoning |-> "Trending down from strength"]
      ELSE IF seasonTotalZ > 50 /\ zDifference < BUY_LOW_THRESHOLD
      THEN [status |-> "BUY_LOW", reasoning |-> "Underperforming recently"]
      ELSE IF seasonTotalZ < -50 /\ zDifference > SELL_HIGH_THRESHOLD
      THEN [status |-> "SELL_HIGH", reasoning |-> "Overperforming recently"]
      ELSE [status |-> "NEUTRAL", reasoning |-> ""]

\* The status and reasoning of the first matching rule.
TrendStatus(seasonTotalZ, recentTotalZ) ==
  LET zDifference == recentTotalZ - seasonTotalZ
  IN  IF seasonTotalZ > 50 /\ zDifference < BUY_LOW_THRESHOLD
      THEN [status |-> "BUY_LOW", reasoning |-> "Underperforming recently"]
      ELSE IF seasonTotalZ < -50 /\ zDifference > SELL_HIGH_THRESHOLD
      THEN [status |-> "SELL_HIGH", reasoning |-> "Overperforming recently"]
      ELSE IF recentTotalZ > seasonTotalZ + 100 /\ seasonTotalZ < 50
      THEN [status |-> "BREAKOUT", reasoning |-> "Trending up significantly"]
      ELSE IF recentTotalZ < seasonTotalZ - 100 /\ seasonTotalZ > 50
      THEN [status |-> "DECLINE", reasoning |-> "Trending down from strength"]
      ELSE [status |-> "NEUTRAL", reasoning |-> ""]

\* The records trends.push can add for one season entry that has a recent
\* entry.
TrendChoices(seasonZ, recentZ, sStats, rStats) ==
  LET zDifference == recentZ.totalZ - seasonZ.totalZ
      recentGP == GpOf(rStats, seasonZ.playerId)
      seasonGP == GpOf(sStats, seasonZ.playerId)
      st == TrendStatus(seasonZ.totalZ, recentZ.totalZ)
  IN  {[playerId |-> seasonZ.playerId,
        playerName |-> seasonZ.name,
        status |-> st.status,
        seasonZ |-> seasonZ.totalZ,
        recentZ |-> recentZ.totalZ,
        zDifference |-> zDifference,
        confidenceScore |-> c,
        reasoning |-> st.reasoning] :
         c \in TenthsChoices(ConfidenceOf(recentGP, seasonGP, zDifference))}

\* A variant that also skips an entry whose season total is falsy, as
\* "!seasonZ.totalZ" would.
InBothMapsTruthyTotal(sz, rz) ==
  SelectSeq(sz, LAMBDA e : e.playerId \in DOMAIN rz /\ e.totalZ # 0)

\* "if (!seasonZ || !recentZ) return": the season entries that are kept.
InBothMaps(sz, rz) ==
  SelectSeq(sz, LAMBDA e : e.playerId \in DOMAIN rz)

\* The values the trends array can take.
TrendsChoices(sz, rz, sStats, rStats) ==
  LET kept == InBothMaps(sz, rz)
  IN  MapsOf([i \in DOMAIN kept |->
                TrendChoices(kept[i], rz[kept[i].playerId], sStats, rStats)],
             DOMAIN kept)

\* Array.prototype.sort is stable: x goes behind the elements whose key is
\* not above its own.
RECURSIVE InsertByKey(_, _)
InsertByKey(sorted, x) ==
  IF sorted = <<>> THEN <<x>>
  ELSE IF Head(sorted).key <= x.key THEN <<Head(sorted)>> \o InsertByKey(Tail(sorted), x)
  ELSE <<x>> \o sorted

RECURSIVE SortPrefix(_, _)
SortPrefix(keyed, n) ==
  IF n = 0 THEN <<>> ELSE InsertByKey(SortPrefix(keyed, n - 1), keyed[n])

\* A variant that filters without sorting.
FilterOnly(trends, status, field, dir) ==
  SelectSeq(trends, LAMBDA t : t.status = status)

\* trends.filter(t => t.status === status).sort(by field), ascending, or
\* descending when dir = -1.
FilterSort(trends, status, field, dir) ==
  LET kept == SelectSeq(trends, LAMBDA t : t.status = status)
      keyed == [i \in DOMAIN kept |-> [key |-> dir * kept[i][field], item |-> kept[i]]]
      sorted == SortPrefix(keyed, Len(kept))
  IN  [i \in DOMAIN sorted |-> sorted[i].item]

TrendAnalysisOf(trends) ==
  [trends |-> trends,
   buyLowCandidates |-> FilterSort(trends, "BUY_LOW", "confidenceScore", -1),
   sellHighCandidates |-> FilterSort(trends, "SELL_HIGH", "confidenceScore", -1),
   breakouts |-> FilterSort(trends, "BREAKOUT", "recentZ", -1),
   declines |-> FilterSort(trends, "DECLINE", "recentZ", 1)]

CalculateTrends ==
  /\ tPc = "input"
  /\ \E trends \in TrendsChoices(seasonZScores, recentZScores, seasonStats, recentStats) :
       trendAnalysis' = TrendAnalysisOf(trends)
  /\ tPc' = "done"
  /\ UNCHANGED <<seasonZScores, recentZScores, seasonStats, recentStats>>

-----------------------------------------------------------------------------
(* Inputs of calculateTrends.                                              *)

\* The most games a stats record counts.
MaxGp == 2

TrendZValues == {-100, -51, -50, 0, 50, 51, 100}

\* A stats map for one id: no record, a record without gp, or a gp; gp is
\* any number, as in StatNegGp.
GpChoices(id) ==
  {EmptyMap, (id :> [pts |-> 0])} \cup {(id :> [gp |-> g]) : g \in -1 .. MaxGp}

ZEntry(id, z) == [playerId |-> id, name |-> id, totalZ |-> z]

\* One player with every pair of totals and games played.
OnePlayerInputs ==
  /\ seasonZScores \in {<<ZEntry("p1", z)>> : z \in TrendZValues}
  /\ recentZScores \in {EmptyMap} \cup {("p1" :> ZEntry("p1", z)) : z \in TrendZValues}
  /\ seasonStats \in GpChoices("p1")
  /\ recentStats \in GpChoices("p1")

\* What one player of a league can look like: in the season map or not, in
\* the recent map or not, with totals for every status.
TrendProfiles ==
  { [inSeason |-> FALSE, inRecent |-> TRUE,  seasonZ |-> 0,    recentZ |-> 100,  recentGP |-> 1],
    [inSeason |-> TRUE,  inRecent |-> FALSE, seasonZ |-> 100,  recentZ |-> 0,    recentGP |-> 1],
    [inSeason |-> FALSE, inRecent |-> FALSE, seasonZ |-> 0,    recentZ |-> 0,    recentGP |-> 0],
    [inSeason |-> TRUE,  inRecent |-> TRUE,  seasonZ |-> 100,  recentZ |-> -100, recentGP |-> 1],
    [inSeason |-> TRUE,  inRecent |-> TRUE,  seasonZ |-> 51,   recentZ |-> -100, recentGP |-> 2],
    [inSeason |-> TRUE,  inRecent |-> TRUE,  seasonZ |-> -100, recentZ |-> 100,  recentGP |-> 1],
    [inSeason |-> TRUE,  inRecent |-> TRUE,  seasonZ |-> -50,  recentZ |-> 100,  recentGP |-> 1],
    [inSeason |-> TRUE,  inRecent |-> TRUE,  seasonZ |-> -51,  recentZ |-> 100,  recentGP |-> 2],
    [inSeason |-> TRUE,  inRecent |-> TRUE,  seasonZ |-> 0,    recentZ |-> 150,  recentGP |-> 1],
    [inSeason |-> TRUE,  inRecent |-> TRUE,  seasonZ |-> 100,  recentZ |-> -50,  recentGP |-> 1],
    [inSeason |-> TRUE,  inRecent |-> TRUE,  seasonZ |-> 100,  recentZ |-> -20,  recentGP |-> 1],
    [inSeason |-> TRUE,  inRecent |-> TRUE,  seasonZ |-> 0,    recentZ |-> 0,    recentGP |-> 2] }

KeyOrders(S) ==
  {p \in [1 .. Cardinality(S) -> S] : \A i, j \in DOMAIN p : p[i] = p[j] => i = j}

\* Leagues of three players in every key order.
LeagueInputs ==
  \E prof \in [PlayerIds -> TrendProfiles], order \in KeyOrders(PlayerIds) :
    /\ seasonZScores =
         LET kept == SelectSeq(order, LAMBDA id : prof[id].inSeason)
         IN  [i \in DOMAIN kept |-> ZEntry(kept[i], prof[kept[i]].seasonZ)]
    /\ recentZScores =
         MapOf([id \in PlayerIds |-> ZEntry(id, prof[id].recentZ)],
               {id \in PlayerIds : prof[id].inRecent})
    /\ seasonStats = [id \in PlayerIds |-> [gp |-> MaxGp]]
    /\ recentStats = [id \in PlayerIds |-> [gp |-> prof[id].recentGP]]

InitT ==
  /\ OnePlayerInputs \/ LeagueInputs
  /\ tPc = "input"
  /\ trendAnalysis = EmptyMap
  /\ IdleZ
  /\ IdleS
  /\ IdleR
  /\ IdleK
  /\ IdleV
  /\ IdleC
  /\ IdleP

NextT == CalculateTrends /\ UNCHANGED <<zVars, sVars, rVars, kVars, vVars, cVars, pVars>>

SpecT == InitT /\ [][NextT]_vars

-----------------------------------------------------------------------------
(* Properties of calculateTrends.                                          *)

SeasonIds == {seasonZScores[i].playerId : i \in DOMAIN seasonZScores}

RecordsOf(id) ==
  {i \in DOMAIN trendAnalysis.trends : trendAnalysis.trends[i].playerId = id}

\* C10: calculateTrends emits exactly one record for each id with an entry
\* in both maps and none for an id missing from either.
C10_OneRecordPerCommonId ==
  tPc = "done" =>
    /\ \A id \in SeasonIds \cap DOMAIN recentZScores : Cardinality(RecordsOf(id)) = 1
    /\ \A i \in DOMAIN trendAnalysis.trends :
         trendAnalysis.trends[i].playerId \in SeasonIds \cap DOMAIN recentZScores

C10_Witness ==
  /\ tPc = "done"
  /\ Len(trendAnalysis.trends) = 1
  /\ SeasonIds \ DOMAIN recentZScores # {}
  /\ DOMAIN recentZScores \ SeasonIds # {}

\* The entries calculateTrends was given for the record at position i.
SeasonEntryOf(i) ==
  CHOOSE e \in {seasonZScores[j] : j \in DOMAIN seasonZScores} :
    e.playerId = trendAnalysis.trends[i].playerId

\* The label the ordered rules give to a season and a recent total.
LabelByRules(season, recent) ==
  LET diff == recent - season
      buyLow == season > 50 /\ diff < -150
      sellHigh == season < -50 /\ diff > 150
      breakout == recent > season + 100 /\ season < 50
      decline == recent < season - 100 /\ season > 50
  IN  CASE buyLow -> "BUY_LOW"
        [] ~buyLow /\ sellHigh -> "SELL_HIGH"
        [] ~buyLow /\ ~sellHigh /\ breakout -> "BREAKOUT"
        [] ~buyLow /\ ~sellHigh /\ ~breakout /\ decline -> "DECLINE"
        [] OTHER -> "NEUTRAL"

\* C11: every trend record carries the label of the first matching rule
\* (BUY_LOW, SELL_HIGH, BREAKOUT, DECLINE, else NEUTRAL); season 1.0 with
\* recent -1.0 is BUY_LOW and season -1.0 with recent 1.0 is SELL_HIGH.
C11_FirstMatchingRule ==
  tPc = "done" =>
    \A i \in DOMAIN trendAnalysis.trends :
      LET season == SeasonEntryOf(i).totalZ
          recent == recentZScores[trendAnalysis.trends[i].playerId].totalZ
          t == trendAnalysis.trends[i]
      IN  /\ t.status = LabelByRules(season, recent)
          /\ (season = 100 /\ recent = -100) => t.status = "BUY_LOW"
          /\ (season = -100 /\ recent = 100) => t.status = "SELL_HIGH"

\* A record that meets the BUY_LOW and the DECLINE condition, and one that
\* meets the SELL_HIGH and the BREAKOUT condition.
C11_Witness ==
  /\ tPc = "done"
  /\ \E i, j \in DOMAIN trendAnalysis.trends :
       /\ trendAnalysis.trends[i].seasonZ = 100
       /\ trendAnalysis.trends[i].recentZ = -100
       /\ trendAnalysis.trends[i].status = "BUY_LOW"
       /\ trendAnalysis.trends[j].seasonZ = -100
       /\ trendAnalysis.trends[j].recentZ = 100
       /\ trendAnalysis.trends[j].status = "SELL_HIGH"

\* The games played the claim's formula reads: a missing count is 0.
ClaimGp(stats, id) ==
  IF id \in DOMAIN stats /\ "gp" \in DOMAIN stats[id] THEN stats[id].gp ELSE 0

\* C12: confidenceScore lies in 0 .. 100 and is 0.6 x min(100, recentGP /
\* max(seasonGP, 1) x 100) + 0.4 x min(100, |recent - season| x 10) rounded
\* to 1 decimal, a missing games-played count being 0.
C12_ConfidenceInRange ==
  tPc = "done" =>
    \A i \in DOMAIN trendAnalysis.trends :
      LET t == trendAnalysis.trends[i]
          recentGP == ClaimGp(recentStats, t.playerId)
          seasonGP == ClaimGp(seasonStats, t.playerId)
          diff == recentZScores[t.playerId].totalZ - SeasonEntryOf(i).totalZ
          ratio == Rat(100 * recentGP, IF seasonGP > 1 THEN seasonGP ELSE 1)
          part1 == IF RLess(RInt(100), ratio) THEN RInt(100) ELSE ratio
          part2 == IF Abs(diff) > 1000 THEN RInt(100) ELSE Rat(Abs(diff), 10)
          exact == RAdd(RMul(<<6, 10>>, part1), RMul(<<4, 10>>, part2))
      IN  /\ t.confidenceScore >= 0
          /\ t.confidenceScore <= 1000
          /\ RLess(RSub(RMul(RInt(10), exact), <<1, 2>>), RInt(t.confidenceScore + 1))
          /\ RLess(RInt(t.confidenceScore - 1), RAdd(RMul(RInt(10), exact), <<1, 2>>))

LabelOfList ==
  [buyLowCandidates |-> "BUY_LOW", sellHighCandidates |-> "SELL_HIGH",
   breakouts |-> "BREAKOUT", declines |-> "DECLINE"]

SeqRange(q) == {q[i] : i \in DOMAIN q}

\* C13: each of the four lists holds exactly the records of trends with its
\* label; buyLowCandidates and sellHighCandidates are in non-increasing
\* confidenceScore order, breakouts in non-increasing and declines in
\* non-decreasing recentZ order.
C13_SublistsFilteredAndSorted ==
  tPc = "done" =>
    /\ \A l \in DOMAIN LabelOfList :
         /\ SeqRange(trendAnalysis[l]) =
              {t \in SeqRange(trendAnalysis.trends) : t.status = LabelOfList[l]}
         /\ Len(trendAnalysis[l]) = Cardinality(SeqRange(trendAnalysis[l]))
    /\ \A l \in {"buyLowCandidates", "sellHighCandidates"} :
         \A i, j \in DOMAIN trendAnalysis[l] :
           i < j => trendAnalysis[l][i].confidenceScore >= trendAnalysis[l][j].confidenceScore
    /\ \A i, j \in DOMAIN trendAnalysis.breakouts :
         i < j => trendAnalysis.breakouts[i].recentZ >= trendAnalysis.breakouts[j].recentZ
    /\ \A i, j \in DOMAIN trendAnalysis.declines :
         i < j => trendAnalysis.declines[i].recentZ <= trendAnalysis.declines[j].recentZ

\* Lists whose order is not the order of trends: the sort moved a record.
C13_Witness ==
  /\ tPc = "done"
  /\ Len(trendAnalysis.buyLowCandidates) = 2
  /\ trendAnalysis.buyLowCandidates # SelectSeq(trendAnalysis.trends, LAMBDA t : t.status = "BUY_LOW")
  /\ \E k \in DOMAIN trendAnalysis.trends : trendAnalysis.trends[k].status = "NEUTRAL"

-----------------------------------------------------------------------------
(* streamingLogic: buildStreamingPlan.                                     *)
(* An object is a record that holds the fields that are set; a date        *)
(* "YYYY-MM-DD" is the number of its day, which orders as the string does; *)
(* z-scores are in hundredths; playerZScores is the sequence of the map's  *)
(* entries [playerId, totalZ] in Object.entries order.                     *)

HasField(r, f) == f \in DOMAIN r

\* r.f ?? d
Get(r, f, d) == IF f \in DOMAIN r THEN r[f] ELSE d

MathMin(a, b) == IF a < b THEN a ELSE b

\* q.slice(0, n)
Slice(q, n) == SubSeq(q, 1, MathMin(Len(q), n))

BENCH_CODES == {"BN", "IR", "IR+", "NA"}

\* String.prototype.toUpperCase on the slot codes in use.
toUpperCase(slot) ==
  CASE slot = "bn" -> "BN"
    [] slot = "Ir" -> "IR"
    [] slot = "ir+" -> "IR+"
    [] slot = "na" -> "NA"
    [] slot = "util" -> "UTIL"
    [] OTHER -> slot

\* The label depends on the date and on the locale and time zone of the
\* environment, which do not change between calls.
toDayLabel(isoDate) == <<"weekday, month, day of", isoDate>>

getActiveSlotCount(rosterPositions) ==
  Len(SelectSeq(rosterPositions,
                LAMBDA slot : slot # "" /\ toUpperCase(slot) \notin BENCH_CODES))

getBenchSlotCount(rosterPositions) ==
  Len(SelectSeq(rosterPositions, LAMBDA slot : toUpperCase(slot) \in BENCH_CODES))

\* matchups and fallbackStarters are read from the input and the roster,
\* where either may be unset.
buildStarterSet(input, roster) ==
  LET fallbackStarters == SeqRange(Get(roster, "starters", <<>>))
  IN  IF ~HasField(input, "matchups") \/ Get(roster, "roster_id", 0) = 0
      THEN fallbackStarters
      ELSE LET found == SelectSeq(input.matchups,
                          LAMBDA m : HasField(m, "roster_id") /\ m.roster_id = roster.roster_id)
           IN  IF found # <<>> /\ Len(Get(found[1], "starters", <<>>)) > 0
               THEN SeqRange(found[1].starters) \ {""}
               ELSE fallbackStarters

\* A variant that leaves the last roster out.
buildRosteredSetButLast(allRosters) ==
  UNION {SeqRange(Get(allRosters[i], "players", <<>>)) : i \in 1 .. Len(allRosters) - 1}

buildRosteredSet(allRosters) ==
  UNION {SeqRange(Get(allRosters[i], "players", <<>>)) : i \in DOMAIN allRosters}

getPlayerMeta(playerId, playersMap) ==
  LET meta == Get(playersMap, playerId, EmptyMap)
  IN  [name |-> IF Get(meta, "full_name", "") # "" THEN meta.full_name
                ELSE IF Get(meta, "first_name", "") # "" /\ Get(meta, "last_name", "") # ""
                THEN meta.first_name \o " " \o meta.last_name
                ELSE IF Get(meta, "search_full_name", "") # "" THEN meta.search_full_name
                ELSE playerId,
       positions |-> IF Len(Get(meta, "fantasy_positions", <<>>)) > 0 THEN meta.fantasy_positions
                     ELSE IF Get(meta, "position", "") # "" THEN <<meta.position>>
                     ELSE <<>>,
       team |-> Get(meta, "team", "")]

\* As SortByZDesc, without the sort.
KeepEntryOrder(entries) == entries

\* agents.sort((a, b) => b.zScore - a.zScore), a stable sort: an entry comes
\* after those with a greater zScore and after the earlier ones with the
\* same zScore.
SortByZDesc(entries) ==
  LET n == Len(entries)
      placed == {<<Cardinality({j \in 1 .. n :
                                 \/ entries[j].zScore > entries[i].zScore
                                 \/ entries[j].zScore = entries[i].zScore /\ j < i}) + 1, i>> :
                   i \in 1 .. n}
  IN  [p \in 1 .. n |-> entries[(CHOOSE x \in placed : x[1] = p)[2]]]

FREE_AGENT_CAP == 200

collectFreeAgents(playerZScores, playersMap, rosteredSet) ==
  LET kept == SelectSeq(playerZScores,
                LAMBDA e : /\ e.playerId \notin rosteredSet
                           /\ getPlayerMeta(e.playerId, playersMap).team # "")
      agents == [i \in DOMAIN kept |->
                  LET m == getPlayerMeta(kept[i].playerId, playersMap)
                  IN  [playerId |-> kept[i].playerId,
                       name |-> m.name,
                       positions |-> m.positions,
                       team |-> m.team,
                       isStarter |-> FALSE,
                       zScore |-> Get(kept[i], "totalZ", 0),
                       upcomingGames |-> <<>>,
                       reason |-> "Top free agent by z-score"]]
  IN  Slice(SortByZDesc(agents), FREE_AGENT_CAP)

enrichWithUpcomingGames(entries, teamGameMap, referenceDate, limit) ==
  [i \in DOMAIN entries |->
    [entries[i] EXCEPT !.upcomingGames =
      Slice(SelectSeq(Get(teamGameMap, entries[i].team, <<>>),
                      LAMBDA game : game.date >= referenceDate), limit)]]

\* playerZScores[playerId]?.totalZ ?? 0
TotalZOf(playerZScores, playerId) ==
  LET found == SelectSeq(playerZScores, LAMBDA e : e.playerId = playerId)
  IN  IF found = <<>> THEN 0 ELSE Get(found[1], "totalZ", 0)

\* (a, b) => a.isStarter === b.isStarter ? b.zScore - a.zScore
\*                                       : a.isStarter ? -1 : 1
OwnCompare(a, b) ==
  IF a.isStarter = b.isStarter THEN b.zScore - a.zScore
  ELSE IF a.isStarter THEN -1 ELSE 1

RECURSIVE InsertOwn(_, _)
InsertOwn(sorted, x) ==
  IF sorted = <<>> THEN <<x>>
  ELSE IF OwnCompare(Head(sorted), x) <= 0 THEN <<Head(sorted)>> \o InsertOwn(Tail(sorted), x)
  ELSE <<x>> \o sorted

RECURSIVE SortOwnPrefix(_, _)
SortOwnPrefix(entries, n) ==
  IF n = 0 THEN <<>> ELSE InsertOwn(SortOwnPrefix(entries, n - 1), entries[n])

\* A variant without the lower cap.
HolesUnclamped(activeSlots, playersAvailable) == activeSlots - playersAvailable

\* Math.max(0, activeSlots - playersAvailable.length)
Holes(activeSlots, playersAvailable) ==
  IF activeSlots - playersAvailable > 0 THEN activeSlots - playersAvailable ELSE 0

\* A variant without the cap of 5.
RecommendationLimitUncapped(holes) == holes * 2

\* Math.min(holes * 2, 5)
RecommendationLimit(holes) == MathMin(holes * 2, 5)

\* The roster's players as PlayerStreamingInfo.
RosterPlayers(input) ==
  LET roster == Get(input, "roster", EmptyMap)
      players == Get(roster, "players", <<>>)
      starters == buildStarterSet(input, roster)
  IN  [i \in DOMAIN players |->
        LET m == getPlayerMeta(players[i], input.playersMap)
        IN  [playerId |-> players[i],
             name |-> m.name,
             positions |-> m.positions,
             team |-> m.team,
             isStarter |-> players[i] \in starters,
             zScore |-> TotalZOf(input.playerZScores, players[i]),
             upcomingGames |-> <<>>]]

\* The callback of dailySchedule.map.
DayPlan(input, day, activeSlots, freeAgents, rosterPlayers) ==
  LET dayTeams == SeqRange(day.teamsPlaying)
      playersAvailable ==
        SelectSeq(rosterPlayers, LAMBDA player : player.team # "" /\ player.team \in dayTeams)
      holes == Holes(activeSlots, Len(playersAvailable))
      enrichedOwnPlayers ==
        enrichWithUpcomingGames(playersAvailable, input.teamGameMap, day.date, 2)
      faOptions ==
        SelectSeq(freeAgents, LAMBDA agent : agent.team # "" /\ agent.team \in dayTeams)
      enriched == enrichWithUpcomingGames(faOptions, input.teamGameMap, day.date, 3)
      enrichedCandidates ==
        [i \in DOMAIN enriched |->
          [enriched[i] EXCEPT !.reason = <<"Plays on", day.date,
                                           "and ranks among top available z-scores">>]]
  IN  [date |-> day.date,
       dayLabel |-> toDayLabel(day.isoDate),
       nbaGames |-> Len(day.games),
       teamsPlaying |-> day.teamsPlaying,
       activeSlots |-> activeSlots,
       playersAvailable |-> Len(playersAvailable),
       holes |-> holes,
       ownPlayers |-> SortOwnPrefix(enrichedOwnPlayers, Len(enrichedOwnPlayers)),
       recommendations |->
         IF holes > 0 THEN Slice(enrichedCandidates, RecommendationLimit(holes)) ELSE <<>>]

\* The plan a call returns when new Date() reads clock.
StreamingPlanOf(input, clock) ==
  LET roster == Get(input, "roster", EmptyMap)
      rosterPositions == Get(input, "rosterPositions", <<>>)
      activeSlots == getActiveSlotCount(rosterPositions)
      benchSlots == getBenchSlotCount(rosterPositions)
      rosteredSet == buildRosteredSet(Get(input, "allRosters", <<>>))
      freeAgents == collectFreeAgents(input.playerZScores, input.playersMap, rosteredSet)
      rosterPlayers == RosterPlayers(input)
  IN  [rosterId |-> Get(roster, "roster_id", 0),
       leagueId |-> Get(input, "leagueId", ""),
       generatedAt |-> <<"ISO string of", clock>>,
       metadata |-> [activeSlots |-> activeSlots,
                     benchSlots |-> benchSlots,
                     totalRosterPlayers |-> Len(Get(roster, "players", <<>>))],
       days |-> [d \in DOMAIN input.dailySchedule |->
                  DayPlan(input, input.dailySchedule[d], activeSlots, freeAgents, rosterPlayers)]]

\* The most calls of buildStreamingPlan in a run.
MaxCalls == 2

\* The last reading of the clock.
MaxNow == 1

BuildStreamingPlan ==
  /\ Len(streamingPlans) < MaxCalls
  /\ streamingPlans' = Append(streamingPlans, StreamingPlanOf(streamingInput, now))
  /\ UNCHANGED <<streamingInput, now>>

\* Time passes between two calls.
Tick ==
  /\ now < MaxNow
  /\ now' = now + 1
  /\ UNCHANGED <<streamingInput, streamingPlans>>

-----------------------------------------------------------------------------
(* Inputs of buildStreamingPlan.                                           *)

Game(id, date) == [gameId |-> id, date |-> date]

\* The team -> games index, sorted by tip-off; LAL has no entry.
TeamGames ==
  [BOS |-> <<Game("g1", 1), Game("g3", 2), Game("g6", 3)>>,
   NYK |-> <<Game("g4", 2), Game("g7", 3), Game("g8", 4), Game("g9", 5)>>]

Day(date, teams, games) ==
  [date |-> date, isoDate |-> <<"ISO string of day", date>>,
   teamsPlaying |-> teams, games |-> games]

Day1 == Day(1, <<"BOS", "LAL">>, <<Game("g1", 1)>>)

Day2 == Day(2, <<"NYK", "BOS">>, <<Game("g3", 2), Game("g4", 2)>>)

Day3 == Day(3, <<"NYK">>, <<Game("g7", 3)>>)

\* A day whose one game names no team.
Day4 == Day(4, <<>>, <<Game("g8", 4)>>)

ScheduleChoices == {<<>>, <<Day1>>, <<Day1, Day3>>, <<Day2, Day3, Day4>>}

\* Player metadata: r1, r2 and r3 are on the target roster, o1 on another
\* one, the others on none; r3 and f7 have no team and f6 no metadata.
PlayersMap ==
  [r1 |-> [full_name |-> "R One", team |-> "BOS", fantasy_positions |-> <<"PG", "SG">>],
   r2 |-> [first_name |-> "R", last_name |-> "Two", team |-> "LAL", position |-> "C"],
   r3 |-> [search_full_name |-> "rthree", fantasy_positions |-> <<>>],
   o1 |-> [full_name |-> "O One", team |-> "NYK"],
   f1 |-> [full_name |-> "F One", team |-> "NYK", position |-> "PF"],
   f2 |-> [first_name |-> "F", team |-> "NYK"],
   f3 |-> [full_name |-> "", first_name |-> "F", last_name |-> "Three", team |-> "NYK"],
   f4 |-> [full_name |-> "F Four", team |-> "NYK"],
   f5 |-> [full_name |-> "F Five", team |-> "BOS"],
   f7 |-> [full_name |-> "F Seven", team |-> ""],
   f8 |-> [full_name |-> "F Eight", team |-> "NYK"],
   f9 |-> [full_name |-> "F Nine", team |-> "NYK"],
   f10 |-> [full_name |-> "F Ten", team |-> "NYK"]]

ZOf(id, z) == [playerId |-> id, totalZ |-> z]

\* Z-score maps in entry order; f10 has no entry, f4's entry in the last
\* map has no totalZ.
ZScoresChoices ==
  { <<>>,
    <<ZOf("f1", 120), ZOf("f2", 300), ZOf("r1", 250), ZOf("o1", 500), ZOf("f7", 900)>>,
    <<ZOf("f1", 120), ZOf("f2", 300), ZOf("f3", -40), [playerId |-> "f4"], ZOf("f5", 80),
      ZOf("f6", 700), ZOf("f7", 900), ZOf("f8", 300), ZOf("f9", 50), ZOf("o1", 500), ZOf("r1", 10),
      ZOf("r2", 10), ZOf("r3", 400)>> }

TargetRosterChoices ==
  { EmptyMap,
    [roster_id |-> 1],
    [roster_id |-> 1, players |-> <<"r1", "r2", "r3">>, starters |-> <<"r2">>],
    [roster_id |-> 1, players |-> <<"r3", "r2", "r1">>],
    [players |-> <<"r1", "r2">>, starters |-> <<"r1", "r2">>] }

OtherRoster == [roster_id |-> 2, players |-> <<"o1">>]

\* allRosters for a target roster: unset, empty, with or without the target.
AllRostersChoices(roster) ==
  {<<>>, <<roster>>, <<roster, OtherRoster>>, <<OtherRoster, [roster_id |-> 3]>>}

MatchupsChoices ==
  { <<>>,
    <<[roster_id |-> 2, starters |-> <<"o1">>], [roster_id |-> 1, starters |-> <<"r1", "">>]>>,
    <<[roster_id |-> 1, starters |-> <<>>]>> }

\* StreamingInput with the optional fields set or unset.
WithOptional(base, field, set, value) ==
  IF set THEN (field :> value) @@ base ELSE base

SlotCodes == {"PG", "UTIL", "BN", "bn", "IR+", ""}

\* The longest roster-slot template of the slot family.
MaxSlots == 3

EightActive == <<"PG", "SG", "SF", "PF", "C", "G", "F", "UTIL">>

TemplateChoices == {<<>>, <<"PG", "BN">>, EightActive, EightActive \o <<"BN", "bn", "IR", "na">>}

BaseInput(roster, allRosters, zs, schedule) ==
  [roster |-> roster, allRosters |-> allRosters, playerZScores |-> zs,
   playersMap |-> PlayersMap, dailySchedule |-> schedule, teamGameMap |-> TeamGames]

\* Every short template with one league.
SlotInputs ==
  \E slots \in SeqsUpTo(SlotCodes, MaxSlots) :
    streamingInput =
      BaseInput([roster_id |-> 1, players |-> <<"r1", "r2", "r3">>],
                 <<[roster_id |-> 1, players |-> <<"r1", "r2", "r3">>], OtherRoster>>,
                 CHOOSE zs \in ZScoresChoices : Len(zs) > 5,
                 <<Day1, Day3>>)
      @@ [rosterPositions |-> slots, leagueId |-> "L1"]

\* Leagues, rosters, matchups, z-score maps and schedules with a few
\* templates.
PlanInputs ==
  \E roster \in TargetRosterChoices, zs \in ZScoresChoices,
     schedule \in ScheduleChoices, template \in TemplateChoices,
     hasMatchups \in BOOLEAN, hasTemplate \in BOOLEAN :
    \E allRosters \in AllRostersChoices(roster), matchups \in MatchupsChoices :
      /\ hasMatchups \/ matchups = <<>>
      /\ hasTemplate \/ template = <<>>
      /\ streamingInput =
           WithOptional(
             WithOptional(BaseInput(roster, allRosters, zs, schedule),
                          "matchups", hasMatchups, matchups),
             "rosterPositions", hasTemplate, template)

\* The free agents of the deep league beyond FREE_AGENT_CAP.
ExtraAgents == 1

DeepAgentId(i) == "b" \o ToString(i)

DeepAgentIds == {DeepAgentId(i) : i \in 1 .. FREE_AGENT_CAP + ExtraAgents}

\* A day on which only MIA plays.
Day5 == Day(5, <<"MIA">>, <<Game("g10", 5)>>)

\* Metadata of the deep league: the first ExtraAgents free agents play for
\* MIA, the others for BOS.
DeepPlayersMap ==
  LET teamOf == [i \in 1 .. FREE_AGENT_CAP + ExtraAgents |->
                   IF i <= ExtraAgents THEN "MIA" ELSE "BOS"]
      meta == [id \in DeepAgentIds |->
                 LET i == CHOOSE j \in DOMAIN teamOf : DeepAgentId(j) = id
                 IN  [full_name |-> id, team |-> teamOf[i]]]
  IN  meta @@ PlayersMap

\* A league with more than FREE_AGENT_CAP free agents, the entries in
\* ascending totalZ order: all totals distinct, or equal two by two.
DeepPoolInputs ==
  \E tied \in BOOLEAN :
    streamingInput =
      [roster |-> [roster_id |-> 1, players |-> <<"r1">>],
       allRosters |-> <<[roster_id |-> 1, players |-> <<"r1">>], OtherRoster>>,
       playerZScores |->
         [i \in 1 .. FREE_AGENT_CAP + ExtraAgents |->
            ZOf(DeepAgentId(i), IF tied THEN 10 * ((i + 1) \div 2) ELSE 10 * i)]
         \o <<ZOf("r1", 5000), ZOf("o1", 5000)>>,
       playersMap |-> DeepPlayersMap,
       dailySchedule |-> <<Day1, Day5>>,
       teamGameMap |-> TeamGames,
       rosterPositions |-> EightActive]

InitS ==
  /\ SlotInputs \/ PlanInputs \/ DeepPoolInputs
  /\ now = 0
  /\ streamingPlans = <<>>
  /\ IdleZ
  /\ IdleT
  /\ IdleR
  /\ IdleK
  /\ IdleV
  /\ IdleC
  /\ IdleP

NextS == (BuildStreamingPlan \/ Tick) /\ UNCHANGED <<zVars, tVars, rVars, kVars, vVars, cVars, pVars>>

SpecS == InitS /\ [][NextS]_vars

-----------------------------------------------------------------------------
(* Properties of buildStreamingPlan.                                       *)

\* The team the metadata gives a player, "" when it gives none.
ResolvedTeam(id) ==
  IF id \in DOMAIN streamingInput.playersMap /\ "team" \in DOMAIN streamingInput.playersMap[id]
  THEN streamingInput.playersMap[id].team ELSE ""

TargetPlayers ==
  IF "roster" \in DOMAIN streamingInput /\ "players" \in DOMAIN streamingInput.roster
  THEN streamingInput.roster.players ELSE <<>>

\* The number of target-roster players whose team plays on day d.
PlayersAvailableOn(d) ==
  Cardinality({i \in DOMAIN TargetPlayers :
    ResolvedTeam(TargetPlayers[i]) \in SeqRange(streamingInput.dailySchedule[d].teamsPlaying)})

\* C14: on every day holes = max(0, activeSlots - playersAvailable), with
\* playersAvailable the number of target-roster players whose team plays
\* that day; holes is never negative, and is 8 when no rostered player plays
\* and there are 8 active slots.
C14_HolesFormula ==
  \A p \in DOMAIN streamingPlans : \A d \in DOMAIN streamingPlans[p].days :
    LET day == streamingPlans[p].days[d]
        diff == day.activeSlots - PlayersAvailableOn(d)
    IN  /\ day.playersAvailable = PlayersAvailableOn(d)
        /\ day.holes = IF diff > 0 THEN diff ELSE 0
        /\ day.holes >= 0
        /\ (day.activeSlots = 8 /\ PlayersAvailableOn(d) = 0) => day.holes = 8

\* A plan with a day of 8 holes and 8 active slots and a day on which
\* rostered players fill some of the slots.
C14_Witness ==
  \E p \in DOMAIN streamingPlans : \E d, e \in DOMAIN streamingPlans[p].days :
    LET days == streamingPlans[p].days
    IN  /\ TargetPlayers # <<>>
        /\ days[d].activeSlots = 8 /\ days[d].playersAvailable = 0 /\ days[d].holes = 8
        /\ days[e].playersAvailable > 0 /\ days[e].holes = 8 - days[e].playersAvailable

\* C15: a day's recommendations are at most min(holes x 2, 5), so never
\* more than 5, and there are none when holes = 0.
C15_RecommendationsCapped ==
  \A p \in DOMAIN streamingPlans : \A d \in DOMAIN streamingPlans[p].days :
    LET day == streamingPlans[p].days[d]
    IN  /\ Len(day.recommendations) <= 5
        /\ Len(day.recommendations) <= day.holes * 2
        /\ day.holes = 0 => day.recommendations = <<>>

\* The ids with a z-score entry and a team that plays on day d that are on
\* no roster of allRosters.
LeaguePlayers ==
  IF "allRosters" \in DOMAIN streamingInput
  THEN UNION {IF "players" \in DOMAIN streamingInput.allRosters[i]
              THEN SeqRange(streamingInput.allRosters[i].players) ELSE {} :
                i \in DOMAIN streamingInput.allRosters}
  ELSE {}

ZScoreIds == {streamingInput.playerZScores[i].playerId : i \in DOMAIN streamingInput.playerZScores}

EligibleOn(d) ==
  {id \in ZScoreIds \ LeaguePlayers :
     /\ ResolvedTeam(id) # ""
     /\ ResolvedTeam(id) \in SeqRange(streamingInput.dailySchedule[d].teamsPlaying)}

\* A day with 5 recommendations although more free agents play and the
\* holes would allow more.
C15_Witness ==
  \E p \in DOMAIN streamingPlans : \E d \in DOMAIN streamingPlans[p].days :
    /\ Len(streamingPlans[p].days[d].recommendations) = 5
    /\ streamingPlans[p].days[d].holes >= 3
    /\ Cardinality(EligibleOn(d)) > 5

\* C16: every recommended player has a z-score entry, a non-empty team that
\* plays that day, and is on no roster of the league.
C16_RecommendedAreFreeAgents ==
  \A p \in DOMAIN streamingPlans : \A d \in DOMAIN streamingPlans[p].days :
    \A i \in DOMAIN streamingPlans[p].days[d].recommendations :
      LET rec == streamingPlans[p].days[d].recommendations[i]
      IN  /\ rec.playerId \in ZScoreIds
          /\ rec.team = ResolvedTeam(rec.playerId)
          /\ rec.team # ""
          /\ rec.team \in SeqRange(streamingInput.dailySchedule[d].teamsPlaying)
          /\ rec.playerId \notin LeaguePlayers

\* Recommendations on a day on which a rostered player with a z-score entry
\* plays too, while an entry without a team ranks above them all.
C16_Witness ==
  \E p \in DOMAIN streamingPlans : \E d \in DOMAIN streamingPlans[p].days :
    /\ streamingPlans[p].days[d].recommendations # <<>>
    /\ \E id \in ZScoreIds \cap LeaguePlayers :
         /\ id \notin SeqRange(TargetPlayers)
         /\ ResolvedTeam(id) \in SeqRange(streamingInput.dailySchedule[d].teamsPlaying)
    /\ \E id \in ZScoreIds \ LeaguePlayers : ResolvedTeam(id) = ""

\* C19: two calls with the same arguments, made at different times, return
\* results equal in every field (here: the calls of buildStreamingPlan, all
\* made with the one streamingInput).
C19_SameInputSameOutput ==
  \A p, q \in DOMAIN streamingPlans : streamingPlans[p] = streamingPlans[q]

\* C20: every slot of the template is exactly one of active or bench, bench
\* when its upper-cased code is BN, IR, IR+ or NA, so metadata.activeSlots +
\* metadata.benchSlots is the number of slots.
C20_SlotsPartitioned ==
  \A p \in DOMAIN streamingPlans :
    LET template == IF "rosterPositions" \in DOMAIN streamingInput
                    THEN streamingInput.rosterPositions ELSE <<>>
        bench == {i \in DOMAIN template : toUpperCase(template[i]) \in {"BN", "IR", "IR+", "NA"}}
    IN  /\ streamingPlans[p].metadata.benchSlots = Cardinality(bench)
        /\ streamingPlans[p].metadata.activeSlots = Len(template) - Cardinality(bench)
        /\ streamingPlans[p].metadata.activeSlots + streamingPlans[p].metadata.benchSlots
             = Len(template)

-----------------------------------------------------------------------------
(* tradeRecommender: recommendTrades.                                      *)
(* playerZScores maps ids to [name, scores, totalZ] with scores in         *)
(* hundredths; a roster holds roster_id and, when set, players.            *)

\* leagueRosters.find((r) => r.roster_id === myRosterId)
FindMyRoster(id, rosters) == SelectSeq(rosters, LAMBDA r : r.roster_id = id)

\* playerData.scores[category] ?? 0
ScoreOf(playerData, category) == Get(playerData.scores, category, 0)

\* ownerDisplayNames?.[String(roster.roster_id)] || `Team ${roster.roster_id}`
OwnerNameOf(names, rosterId) ==
  IF Get(names, rosterId, "") # "" THEN names[rosterId] ELSE <<"Team", rosterId>>

\* The listings <<rosterIndex, position>> the two loops push a record for, in
\* the order of the pushes.
RECURSIVE ListingsFrom(_, _, _, _, _)
ListingsFrom(id, rosters, zs, r, k) ==
  IF r > Len(rosters) THEN <<>>
  ELSE IF rosters[r].roster_id = id \/ k > Len(Get(rosters[r], "players", <<>>))
  THEN ListingsFrom(id, rosters, zs, r + 1, 1)
  ELSE (IF rosters[r].players[k] \in DOMAIN zs THEN <<(<<r, k>>)>> ELSE <<>>)
       \o ListingsFrom(id, rosters, zs, r, k + 1)

\* A variant that also skips the players of the requesting roster.
OtherListingsNotMine(id, rosters, zs) ==
  LET mine == SeqRange(Get(FindMyRoster(id, rosters)[1], "players", <<>>))
  IN  SelectSeq(ListingsFrom(id, rosters, zs, 1, 1),
                LAMBDA l : rosters[l[1]].players[l[2]] \notin mine)

OtherListings(id, rosters, zs) == ListingsFrom(id, rosters, zs, 1, 1)

\* recommendations.push({...}) for the listing l.
TradeRecommendationOf(l, rosters, zs, need, spare, names) ==
  LET roster == rosters[l[1]]
      playerId == roster.players[l[2]]
      playerData == zs[playerId]
      needCategoryZ == ScoreOf(playerData, need)
      spareCategoryZ == ScoreOf(playerData, spare)
  IN  [playerId |-> playerId,
       playerName |-> playerData.name,
       rosters |-> rosters,
       rosterIndex |-> l[1] - 1,
       ownerName |-> OwnerNameOf(names, roster.roster_id),
       stats |-> [needCategoryZ |-> needCategoryZ,
                  spareCategoryZ |-> spareCategoryZ,
                  tradeScore |-> needCategoryZ - spareCategoryZ]]

\* A variant that returns the records in the order of the pushes.
Unsorted(recs) == recs

\* recommendations.sort((a, b) => b.stats.tradeScore - a.stats.tradeScore)
SortByTradeScore(recs) ==
  LET keyed == [i \in DOMAIN recs |-> [key |-> 0 - recs[i].stats.tradeScore, item |-> recs[i]]]
      sorted == SortPrefix(keyed, Len(recs))
  IN  [i \in DOMAIN sorted |-> sorted[i].item]

recommendTrades(id, rosters, zs, need, spare, names) ==
  IF FindMyRoster(id, rosters) = <<>> THEN <<>>
  ELSE LET listings == OtherListings(id, rosters, zs)
       IN  SortByTradeScore([i \in DOMAIN listings |->
             TradeRecommendationOf(listings[i], rosters, zs, need, spare, names)])

RecommendTrades ==
  /\ rPc = "input"
  /\ tradeRecommendations' =
       recommendTrades(myRosterId, tradeRosters, tradeZScores, needCategory,
                       spareCategory, ownerDisplayNames)
  /\ rPc' = "done"
  /\ UNCHANGED <<myRosterId, tradeRosters, tradeZScores, needCategory, spareCategory,
                 ownerDisplayNames>>

-----------------------------------------------------------------------------
(* Inputs of recommendTrades.                                              *)

\* The most rosters of a league.
MaxRosters == 3

TradePlayersChoices ==
  {<<>>, <<"p1">>, <<"p2", "p1">>, <<"p3", "p1", "p2">>, <<"p4", "p3">>}

\* Rosters 1 .. n in either order, each with or without a players field.
TradeRostersChoices ==
  UNION {
    LET withPlayers == [1 .. n -> TradePlayersChoices \cup {<<"unset">>}]
    IN  UNION {
          { [i \in 1 .. n |->
              IF ps[i] = <<"unset">> THEN [roster_id |-> ids[i]]
              ELSE [roster_id |-> ids[i], players |-> ps[i]]] : ps \in withPlayers } :
          ids \in {[i \in 1 .. n |-> i], [i \in 1 .. n |-> n + 1 - i]} } :
    n \in 0 .. MaxRosters }

ZData(name, scores, total) == [name |-> name, scores |-> scores, totalZ |-> total]

\* p4 never has an entry.
TradeZScoresChoices ==
  { EmptyMap,
    [p1 |-> ZData("P One", [ast |-> 150, blk |-> -50], 100),
     p2 |-> ZData("P Two", [ast |-> 20], 20),
     p3 |-> ZData("P Three", [ast |-> 150, blk |-> 200, stl |-> 30], 380)],
    [p2 |-> ZData("P Two", [blk |-> -70, stl |-> 10], 60),
     p3 |-> ZData("P Three", EmptyMap, 0)] }

InitR ==
  /\ myRosterId \in 1 .. MaxRosters + 1
  /\ tradeRosters \in TradeRostersChoices
  /\ tradeZScores \in TradeZScoresChoices
  /\ needCategory \in {"ast", "stl"}
  /\ spareCategory = "blk"
  /\ ownerDisplayNames \in {EmptyMap, (1 :> "Ann") @@ (2 :> "")}
  /\ rPc = "input"
  /\ tradeRecommendations = <<>>
  /\ IdleZ
  /\ IdleT
  /\ IdleS
  /\ IdleK
  /\ IdleV
  /\ IdleC
  /\ IdleP

NextR == RecommendTrades /\ UNCHANGED <<zVars, tVars, sVars, kVars, vVars, cVars, pVars>>

SpecR == InitR /\ [][NextR]_vars

-----------------------------------------------------------------------------
(* Properties of recommendTrades.                                          *)

\* The listings on rosters other than the requesting one whose id has a
\* z-score entry.
OtherListingsWithEntry ==
  UNION {
    IF tradeRosters[r].roster_id # myRosterId /\ "players" \in DOMAIN tradeRosters[r]
    THEN {<<r, k>> : k \in {k \in DOMAIN tradeRosters[r].players :
                               tradeRosters[r].players[k] \in DOMAIN tradeZScores}}
    ELSE {} :
    r \in DOMAIN tradeRosters }

RequestingRosterKnown == \E r \in DOMAIN tradeRosters : tradeRosters[r].roster_id = myRosterId

\* C17 as stated: for any requesting roster id the returned list has one
\* entry per listing, on a roster other than the requesting one, of an id
\* with a z-score entry.
C17_OnePerOtherListing ==
  rPc = "done" => Len(tradeRecommendations) = Cardinality(OtherListingsWithEntry)

\* C17 as amended: that holds when the requesting roster id is the id of one
\* of the rosters; when it is the id of none the list is empty.
C17_OnePerOtherListingOfKnownRoster ==
  rPc = "done" =>
    IF RequestingRosterKnown
    THEN /\ Len(tradeRecommendations) = Cardinality(OtherListingsWithEntry)
         /\ \A l \in OtherListingsWithEntry :
              \E i \in DOMAIN tradeRecommendations :
                /\ tradeRecommendations[i].rosterIndex = l[1] - 1
                /\ tradeRecommendations[i].playerId = tradeRosters[l[1]].players[l[2]]
    ELSE tradeRecommendations = <<>>

\* The same id listed on two other rosters and on the requesting one gives
\* two entries, next to a listing without a z-score entry that gives none.
C17_Witness ==
  /\ rPc = "done"
  /\ RequestingRosterKnown
  /\ \E i, j \in DOMAIN tradeRecommendations :
       /\ i # j
       /\ tradeRecommendations[i].playerId = tradeRecommendations[j].playerId
       /\ \E r \in DOMAIN tradeRosters :
            /\ tradeRosters[r].roster_id = myRosterId
            /\ "players" \in DOMAIN tradeRosters[r]
            /\ tradeRecommendations[i].playerId \in SeqRange(tradeRosters[r].players)
  /\ \E r \in DOMAIN tradeRosters :
       /\ tradeRosters[r].roster_id # myRosterId
       /\ "players" \in DOMAIN tradeRosters[r]
       /\ SeqRange(tradeRosters[r].players) \ DOMAIN tradeZScores # {}

\* The score of a player in a category, 0 when the player has none.
CategoryScore(id, category) ==
  IF category \in DOMAIN tradeZScores[id].scores THEN tradeZScores[id].scores[category] ELSE 0

\* C18: the list is in non-increasing tradeScore order, and each tradeScore
\* is the score in the need category minus the score in the spare category,
\* a missing category counting as 0.
C18_SortedByTradeScore ==
  rPc = "done" =>
    /\ \A i \in DOMAIN tradeRecommendations :
         tradeRecommendations[i].stats.tradeScore =
           CategoryScore(tradeRecommendations[i].playerId, needCategory)
           - CategoryScore(tradeRecommendations[i].playerId, spareCategory)
    /\ \A i, j \in DOMAIN tradeRecommendations :
         i < j => tradeRecommendations[i].stats.tradeScore
                    >= tradeRecommendations[j].stats.tradeScore

\* The best entry is from a later roster than the worst one, and an entry
\* lacks one of the two categories.
C18_Witness ==
  /\ rPc = "done"
  /\ Len(tradeRecommendations) >= 2
  /\ tradeRecommendations[1].rosterIndex
       > tradeRecommendations[Len(tradeRecommendations)].rosterIndex
  /\ tradeRecommendations[1].stats.tradeScore
       > tradeRecommendations[Len(tradeRecommendations)].stats.tradeScore
  /\ \E i \in DOMAIN tradeRecommendations :
       spareCategory \notin DOMAIN tradeZScores[tradeRecommendations[i].playerId].scores

\* The players of the requesting roster.
MyPlayers ==
  UNION {IF tradeRosters[r].roster_id = myRosterId /\ "players" \in DOMAIN tradeRosters[r]
         THEN SeqRange(tradeRosters[r].players) ELSE {} : r \in DOMAIN tradeRosters}

\* C26: no entry returned by recommendTrades is for a player of the
\* requesting roster, also when the id is listed on another roster too.
C26_NoOwnPlayerRecommended ==
  rPc = "done" =>
    \A i \in DOMAIN tradeRecommendations : tradeRecommendations[i].playerId \notin MyPlayers

\* C27: in every day plan no player is both in ownPlayers and in
\* recommendations, and no recommended player is on the target roster,
\* whether or not the target roster is one of allRosters.
C27_OwnPlayersNotRecommended ==
  \A p \in DOMAIN streamingPlans : \A d \in DOMAIN streamingPlans[p].days :
    LET day == streamingPlans[p].days[d]
        recommended == {day.recommendations[i].playerId : i \in DOMAIN day.recommendations}
        own == {day.ownPlayers[i].playerId : i \in DOMAIN day.ownPlayers}
    IN  /\ recommended \cap own = {}
        /\ recommended \cap SeqRange(TargetPlayers) = {}

-----------------------------------------------------------------------------
(* consistencyRating: calculateConsistency.                                *)
(* playerStats is [given, stats]: given is FALSE for an undefined          *)
(* argument; mean and std are in hundredths and cv in thousandths.         *)

\* parseFloat(x.toFixed(digits)) in units of 1 / scale; both neighbours at
\* a tie.
FixedChoices(x, scale) ==
  RCeil(RSub(RMul(RInt(scale), x), <<1, 2>>)) .. RFloor(RAdd(RMul(RInt(scale), x), <<1, 2>>))

\* A variant that returns early only without a record.
NoGamesOnlyWithoutRecord(arg) == ~arg.given

\* !playerStats || !playerStats.gp || playerStats.gp === 0
NoGames(arg) == ~arg.given \/ Get(arg.stats, "gp", 0) = 0

\* x || d for a number x
OrDefault(r, f, d) == IF Get(r, f, 0) = 0 THEN d ELSE r[f]

UsageScore(ppg, rpg, apg) == RAdd(ppg, RAdd(RMul(rpg, <<1, 2>>), RMul(apg, <<7, 10>>)))

BaseCV(usageScore) ==
  IF RLess(RInt(20), usageScore) THEN <<15, 100>>
  ELSE IF RLess(RInt(12), usageScore) THEN <<22, 100>>
  ELSE IF RLess(RInt(6), usageScore) THEN <<35, 100>>
  ELSE <<1, 2>>

\* A variant that weighs the variance by 0.5.
PerturbationHalf(ppg, rpg, apg, usageScore) ==
  RMul(RDiv(RAbs(RSub(RSub(ppg, rpg), apg)),
            IF RLess(RInt(1), usageScore) THEN usageScore ELSE RInt(1)), <<1, 2>>)

\* Math.abs(ppg - rpg - apg) / Math.max(usageScore, 1) * 0.05
Perturbation(ppg, rpg, apg, usageScore) ==
  RMul(RDiv(RAbs(RSub(RSub(ppg, rpg), apg)),
            IF RLess(RInt(1), usageScore) THEN usageScore ELSE RInt(1)), <<1, 20>>)

RiskLevel(estimatedCV) ==
  IF RLess(<<2, 5>>, estimatedCV) THEN "High"
  ELSE IF RLess(<<1, 4>>, estimatedCV) THEN "Medium"
  ELSE "Low"

\* The objects the call can return.
ConsistencyChoices(arg) ==
  IF NoGames(arg)
  THEN {[mean |-> 0, std |-> 0, cv |-> 0, riskLevel |-> "N/A"]}
  ELSE LET gp == OrDefault(arg.stats, "gp", 1)
           ppg == Rat(OrDefault(arg.stats, "pts", 0), gp)
           rpg == Rat(OrDefault(arg.stats, "reb", 0), gp)
           apg == Rat(OrDefault(arg.stats, "ast", 0), gp)
           usageScore == UsageScore(ppg, rpg, apg)
           estimatedCV == RAdd(BaseCV(usageScore), Perturbation(ppg, rpg, apg, usageScore))
       IN  {[mean |-> m, std |-> sd, cv |-> c, riskLevel |-> RiskLevel(estimatedCV)] :
              m \in FixedChoices(ppg, 100), sd \in FixedChoices(estimatedCV, 100),
              c \in FixedChoices(estimatedCV, 1000)}

CalculateConsistency ==
  /\ kPc = "input"
  /\ consistencyMetrics' \in ConsistencyChoices(playerStats)
  /\ kPc' = "done"
  /\ UNCHANGED playerStats

\* The most games played of a season aggregate.
MaxGames == 3

PtsValues == {0, 6, 12, 20, 21, 50}

RebValues == {-5, 0, 4, 30, 45}

AstValues == {0, 3, 10, 30}

\* Records with every field set, with a field unset, and no record.
ConsistencyInputs ==
  {[given |-> FALSE, stats |-> EmptyMap], [given |-> TRUE, stats |-> EmptyMap],
   [given |-> TRUE, stats |-> [pts |-> 20, reb |-> 4]],
   [given |-> TRUE, stats |-> [gp |-> 2, ast |-> 10]],
   [given |-> TRUE, stats |-> [gp |-> -1, pts |-> 20, reb |-> 4, ast |-> 3]]}
  \cup {[given |-> TRUE, stats |-> [gp |-> g, pts |-> p, reb |-> r, ast |-> a]] :
          g \in 0 .. MaxGames, p \in PtsValues, r \in RebValues, a \in AstValues}

InitK ==
  /\ playerStats \in ConsistencyInputs
  /\ kPc = "input"
  /\ consistencyMetrics = EmptyMap
  /\ IdleZ
  /\ IdleT
  /\ IdleS
  /\ IdleR
  /\ IdleV
  /\ IdleC
  /\ IdleP

NextK == CalculateConsistency /\ UNCHANGED <<zVars, tVars, sVars, rVars, vVars, cVars, pVars>>

SpecK == InitK /\ [][NextK]_vars

\* The per-game averages and the usage score of the argument.
PerGame(f) == Rat(Get(playerStats.stats, f, 0), playerStats.stats.gp)

UsageOfArg == RAdd(PerGame("pts"), RAdd(RMul(PerGame("reb"), <<1, 2>>), RMul(PerGame("ast"), <<7, 10>>)))

\* C21: the risk level is 'N/A' with mean, std and cv 0 when gp is 0 or the
\* record or its gp is missing, and Low, Medium or High when gp > 0.
C21_NoGamesIsNA ==
  kPc = "done" =>
    /\ (~playerStats.given \/ "gp" \notin DOMAIN playerStats.stats \/ playerStats.stats.gp = 0)
         => consistencyMetrics = [mean |-> 0, std |-> 0, cv |-> 0, riskLevel |-> "N/A"]
    /\ (playerStats.given /\ "gp" \in DOMAIN playerStats.stats /\ playerStats.stats.gp > 0)
         => consistencyMetrics.riskLevel \in {"Low", "Medium", "High"}

\* A record with points and rebounds whose gp is 0.
C21_Witness ==
  /\ kPc = "done"
  /\ playerStats.given
  /\ "gp" \in DOMAIN playerStats.stats
  /\ playerStats.stats.gp = 0
  /\ playerStats.stats.pts > 0
  /\ consistencyMetrics.riskLevel = "N/A"

\* The base value the thresholds give a usage score, in thousandths.
BaseThousandths(usage) ==
  IF RLess(RInt(20), usage) THEN 150
  ELSE IF RLess(RInt(12), usage) THEN 220
  ELSE IF RLess(RInt(6), usage) THEN 350
  ELSE 500

\* C29: with gp > 0 and non-negative pts, reb and ast, cv is the base value
\* plus between 0 and 0.10, so within 0.15 .. 0.60; usageScore > 20 is Low,
\* usageScore > 12 is never High, usageScore <= 6 is High.
C29_PerturbationBounded ==
  (/\ kPc = "done"
   /\ playerStats.given
   /\ Get(playerStats.stats, "gp", 0) > 0
   /\ Get(playerStats.stats, "pts", 0) >= 0
   /\ Get(playerStats.stats, "reb", 0) >= 0
   /\ Get(playerStats.stats, "ast", 0) >= 0)
  => /\ consistencyMetrics.cv - BaseThousandths(UsageOfArg) \in 0 .. 100
     /\ consistencyMetrics.cv \in 150 .. 600
     /\ RLess(RInt(20), UsageOfArg) => consistencyMetrics.riskLevel = "Low"
     /\ RLess(RInt(12), UsageOfArg) => consistencyMetrics.riskLevel # "High"
     /\ ~RLess(RInt(6), UsageOfArg) => consistencyMetrics.riskLevel = "High"

\* Rebounds alone with a usage score above 20: the largest perturbation on
\* the lowest base value.
C29_Witness ==
  /\ kPc = "done"
  /\ playerStats.given
  /\ Get(playerStats.stats, "gp", 0) > 0
  /\ Get(playerStats.stats, "pts", 0) = 0
  /\ Get(playerStats.stats, "ast", 0) = 0
  /\ consistencyMetrics.cv = 250
  /\ consistencyMetrics.riskLevel = "Low"

\* ---------------------------------------------------------------------
\* calculateZScores: the z values of a category against its own mean
\* ---------------------------------------------------------------------

\* The numerators of the unrounded z values of key k, one per result entry;
\* all of them share the divisor of the key's baseline.
ZNumerators(k) ==
  LET ids == SeqOfSet(DOMAIN unroundedZ)
  IN  [i \in DOMAIN ids |-> unroundedZ[ids[i]][k].n]

\* C28: for every active category the unrounded weighted z values of all
\* players in the result sum to zero.
C28_ZValuesSumToZero ==
  Returned => \A k \in DOMAIN leagueMath : RSum(ZNumerators(k))[1] = 0

\* The same sum in a league where nobody is listed twice and no record has a
\* negative gp: there the result's players are the population of the mean.
C28_PlainLeagueSumsToZero ==
  (Returned /\ PlainLeague) => \A k \in DOMAIN leagueMath : RSum(ZNumerators(k))[1] = 0

-----------------------------------------------------------------------------
(* buildStreamingPlan: which free agents a day recommends.                 *)

\* The ids with a z-score entry and a resolved team that are on no roster.
FreeAgentCandidates == {id \in ZScoreIds \ LeaguePlayers : ResolvedTeam(id) # ""}

\* The totalZ of an id's entry, 0 when the entry has none.
EntryTotalZ(id) ==
  LET entry == CHOOSE e \in SeqRange(streamingInput.playerZScores) : e.playerId = id
  IN  IF "totalZ" \in DOMAIN entry THEN entry.totalZ ELSE 0

\* The candidates other than id that rank at least as high as id.
RankedNotBelow(id) ==
  {c \in FreeAgentCandidates \ {id} : EntryTotalZ(c) >= EntryTotalZ(id)}

\* The candidates that rank strictly above id.
RankedAbove(id) == {c \in FreeAgentCandidates : EntryTotalZ(c) > EntryTotalZ(id)}

\* C22: on a day with holes > 0 the recommendations are in non-increasing
\* z-score order, no eligible free agent that plays that day and is not
\* recommended has a z-score strictly greater than a recommended one, and
\* the pool is the 200 highest-totalZ unrostered players with a resolved
\* team: every recommended player has fewer than 200 candidates above it,
\* and when a day recommends fewer than min(holes x 2, 5) players, every
\* candidate playing that day that is left out has 200 others not below it.
C22_TopRankedRecommended ==
  \A p \in DOMAIN streamingPlans : \A d \in DOMAIN streamingPlans[p].days :
    LET day == streamingPlans[p].days[d]
        recs == day.recommendations
        recIds == {recs[i].playerId : i \in DOMAIN recs}
        limit == IF day.holes * 2 < 5 THEN day.holes * 2 ELSE 5
    IN  day.holes > 0 =>
          /\ \A i, j \in DOMAIN recs : i < j => recs[i].zScore >= recs[j].zScore
          /\ \A i \in DOMAIN recs :
               /\ recs[i].zScore = EntryTotalZ(recs[i].playerId)
               /\ Cardinality(RankedAbove(recs[i].playerId)) < 200
          /\ \A c \in EligibleOn(d) \ recIds :
               /\ \A i \in DOMAIN recs : EntryTotalZ(c) <= recs[i].zScore
               /\ Len(recs) < limit => Cardinality(RankedNotBelow(c)) >= 200

\* A league with more than 200 candidates: one day recommends five players
\* and leaves lower-ranked ones that play out, another day recommends fewer
\* than its holes allow although a candidate below the 200th plays.
C22_Witness ==
  \E p \in DOMAIN streamingPlans : \E d, e \in DOMAIN streamingPlans[p].days :
    /\ Cardinality(FreeAgentCandidates) > 200
    /\ streamingPlans[p].days[d].holes > 0
    /\ Len(streamingPlans[p].days[d].recommendations) = 5
    /\ EligibleOn(d) \ {streamingPlans[p].days[d].recommendations[i].playerId : i \in 1 .. 5} # {}
    /\ streamingPlans[p].days[e].holes > 0
    /\ Len(streamingPlans[p].days[e].recommendations) < 5
    /\ EligibleOn(e) \ {streamingPlans[p].days[e].recommendations[i].playerId :
                          i \in DOMAIN streamingPlans[p].days[e].recommendations} # {}

-----------------------------------------------------------------------------
(* RosterView.loadPlayers: the season and recent-window z-scores.  The     *)
(* part modelled starts at "if (allRosters && allRosters.length > 0 &&     *)
(* scoringSettings)"; the two awaits split it into two steps.              *)

\* What one call of calculateZScores can produce: its baselines and the map
\* it returns.
ZScoreCalls(rosters, stats, settings) ==
  LET activeCats      == ActiveCats(settings)
      populationIds   == PopulationIds(rosters)
      populationStats == PopulationStats(populationIds, stats)
  IN  IF EarlyReturn(activeCats, populationStats)
      THEN {[math |-> EmptyMap, result |-> EmptyMap]}
      ELSE LET lm == LeagueMath(activeCats, populationStats)
               uz == UnroundedZ(activeCats, populationIds, stats, lm)
           IN  {[math |-> lm, result |-> r] : r \in ResultChoices(activeCats, stats, uz)}

\* playerData.name = `${first_name} ${last_name}` for the ids playersMap
\* names in full.
EnrichNames(zScores, playersMap) ==
  MapOf([id \in DOMAIN zScores |->
           IF /\ id \in DOMAIN playersMap
              /\ Get(playersMap[id], "first_name", "") # ""
              /\ Get(playersMap[id], "last_name", "") # ""
           THEN [zScores[id] EXCEPT
                   !.name = playersMap[id].first_name \o " " \o playersMap[id].last_name]
           ELSE zScores[id]], DOMAIN zScores)

\* As RecentCallStats, with the season records.
RecentCallStatsOfSeason(stats, recent) == stats

\* The stats argument of the recent-window call:
\* calculateZScores(allRosters, recentStats, scoringSettings).
RecentCallStats(stats, recent) == recent

\* trendMap[trend.playerId] = trend, for the trends of calculateTrends.
TrendMaps(zScores, recentZ, stats, recent) ==
  LET order == SeqOfSet(DOMAIN zScores)
      sz == [i \in DOMAIN order |->
               [playerId |-> order[i], name |-> zScores[order[i]].name,
                totalZ |-> zScores[order[i]].totalZ]]
  IN  {MapOf([id \in SeqRange([i \in DOMAIN trends |-> trends[i].playerId]) |->
                trends[CHOOSE i \in DOMAIN trends : trends[i].playerId = id]],
             SeqRange([i \in DOMAIN trends |-> trends[i].playerId])) :
         trends \in TrendsChoices(sz, recentZ, stats, recent)}

\* const stats = await getCachedNBAStats(); if (stats) { zScores = ...;
\* setPlayerZScores(zScores); ... }
SeasonZScores ==
  /\ vPc = "start"
  /\ IF Len(viewRosters) > 0 /\ viewSettings.given /\ viewStats.given
     THEN \E call \in ZScoreCalls(viewRosters, viewStats.data, viewSettings.data) :
            /\ viewSeasonMath' = call.math
            /\ viewZScores' = EnrichNames(call.result, viewPlayersMap)
            /\ vPc' = "recent"
     ELSE /\ vPc' = "done"
          /\ UNCHANGED <<viewSeasonMath, viewZScores>>
  /\ UNCHANGED <<viewRosters, viewSettings, viewStats, viewRecentStats, viewPlayersMap,
                 viewRecentMath, viewTrends>>

\* const recentStats = await getCachedRecentStats(); if (recentStats) {
\* recentZScores = ...; trends = calculateTrends(...); setPlayerTrends(...) }
RecentZScores ==
  /\ vPc = "recent"
  /\ IF viewRecentStats.given
     THEN \E call \in ZScoreCalls(viewRosters,
                                  RecentCallStats(viewStats.data, viewRecentStats.data),
                                  viewSettings.data) :
            /\ viewRecentMath' = call.math
            /\ viewTrends' \in TrendMaps(viewZScores, call.result,
                                         viewStats.data, viewRecentStats.data)
     ELSE UNCHANGED <<viewRecentMath, viewTrends>>
  /\ vPc' = "done"
  /\ UNCHANGED <<viewRosters, viewSettings, viewStats, viewRecentStats, viewPlayersMap,
                 viewSeasonMath, viewZScores>>

\* Season and recent-window records of three players.
SeasonLines ==
  { [p1 |-> StatA, p2 |-> StatB, p3 |-> StatC],
    [p1 |-> [gp |-> 4, pts |-> 40, fgm |-> 8, fga |-> 16, ftm |-> 3, fta |-> 4],
     p2 |-> [gp |-> 4, pts |-> 20, fgm |-> 4, fga |-> 16, ftm |-> 1, fta |-> 4],
     p3 |-> [gp |-> 2, pts |-> 30, fgm |-> 6, fga |-> 8, ftm |-> 4, fta |-> 4]] }

RecentLines ==
  { EmptyMap,
    [p1 |-> StatA, p2 |-> StatB, p3 |-> StatC],
    [p1 |-> [gp |-> 2, pts |-> 30, fgm |-> 6, fga |-> 8, ftm |-> 0, fta |-> 2],
     p2 |-> [gp |-> 1, pts |-> 1, fgm |-> 0, fga |-> 4, ftm |-> 1, fta |-> 2]],
    [p1 |-> [gp |-> 1, pts |-> 2, fgm |-> 1, fga |-> 1],
     p2 |-> [gp |-> 0, pts |-> 0],
     p3 |-> [gp |-> 2, pts |-> 8, fgm |-> 3, fga |-> 4, ftm |-> 2, fta |-> 2]] }

Nullable(S) == {[given |-> FALSE]} \cup {[given |-> TRUE, data |-> x] : x \in S}

ViewSettingsChoices ==
  { <<Entry("fg_pct", 1)>>,
    <<Entry("pts", 1), Entry("ft_pct", 2)>>,
    <<Entry("fg_pct", 1), Entry("ft_pct", -1), Entry("to", -1)>>,
    <<Entry("pts", 1)>> }

ViewRostersChoices ==
  { <<>>,
    <<[roster_id |-> 1, players |-> <<"p1", "p2", "p3">>]>>,
    <<[roster_id |-> 1, players |-> <<"p2", "p1">>], [roster_id |-> 2, players |-> <<"p3">>]>> }

InitV ==
  /\ viewRosters \in ViewRostersChoices
  /\ viewSettings \in Nullable(ViewSettingsChoices)
  /\ viewStats \in Nullable(SeasonLines)
  /\ viewRecentStats \in Nullable(RecentLines)
  /\ viewPlayersMap = [p1 |-> [first_name |-> "P", last_name |-> "One"],
                       p2 |-> [first_name |-> "P"]]
  /\ vPc = "start"
  /\ viewSeasonMath = EmptyMap
  /\ viewRecentMath = EmptyMap
  /\ viewZScores = EmptyMap
  /\ viewTrends = EmptyMap
  /\ IdleZ
  /\ IdleT
  /\ IdleS
  /\ IdleR
  /\ IdleK
  /\ IdleC
  /\ IdleP

NextV == (SeasonZScores \/ RecentZScores) /\ UNCHANGED <<zVars, tVars, sVars, rVars, kVars, cVars, pVars>>

SpecV == InitV /\ [][NextV]_vars

\* The Impact categories both calls have a baseline for.
ViewImpactKeys ==
  {k \in DOMAIN viewRecentMath \cap DOMAIN viewSeasonMath :
     CatOfKey(ActiveCats(viewSettings.data), k).statKey \in IMPACT_STATS}

RecentDone == vPc = "done" /\ viewRecentMath # EmptyMap

\* C23 as stated: the league average percentage of the recent-window
\* computation is the one of the season window.
C23_RecentUsesSeasonPct ==
  RecentDone => \A k \in ViewImpactKeys : viewRecentMath[k].avgPct = viewSeasonMath[k].avgPct

\* Total makes over total attempts of the listed players with gp > 0 in the
\* records of one window, 0 without attempts.
WindowPct(k, records) ==
  LET type == ImpactType(CatOfKey(ActiveCats(viewSettings.data), k).statKey)
      ids == SelectSeq(PopulationIds(viewRosters),
                       LAMBDA id : id \in DOMAIN records /\ records[id].gp > 0)
      made == SumOver([i \in DOMAIN ids |-> getSplitStats(records[ids[i]], type).m], DOMAIN ids)
      att == SumOver([i \in DOMAIN ids |-> getSplitStats(records[ids[i]], type).a], DOMAIN ids)
  IN  IF att > 0 THEN Rat(made, att) ELSE RInt(0)

\* C23, amended: the league average percentage of the recent-window
\* computation is total makes over total attempts of the recent-window
\* population passed to it, whatever the season window's percentage is.
C23_RecentUsesRecentPct ==
  RecentDone =>
    \A k \in ViewImpactKeys : viewRecentMath[k].avgPct = WindowPct(k, viewRecentStats.data)

\* Both windows computed with an Impact category whose league percentage
\* differs between the season and the recent population.
C23_Witness ==
  /\ RecentDone
  /\ \E k \in ViewImpactKeys :
       /\ viewSeasonMath[k].avgPct = WindowPct(k, viewStats.data)
       /\ WindowPct(k, viewStats.data) # WindowPct(k, viewRecentStats.data)

-----------------------------------------------------------------------------
(* The idb-keyval caches: getCachedNBAStats ("stats"), getCachedPlayersNBA *)
(* ("players"), getCachedPlayerInjuries ("injuries") and                   *)
(* getCachedRecentStats ("recent").  A run is about one of the four; every *)
(* await is one step.  Stored data is "none" while the key was never set,  *)
(* "empty" for {}, or the name of a fetched payload.  The clock advances   *)
(* in ticks of HoursPerTick hours and timestamps are in hours.             *)

CacheKinds == {"stats", "players", "injuries", "recent"}

\* CACHE_DURATION_MS of each module, in hours.
CACHE_DURATION_MS_SixEverywhere(kind) == 6

CACHE_DURATION_MS(kind) == IF kind = "recent" THEN 6 ELSE 24

\* get<number>(TIMESTAMP_KEY) of a key that was never set.
NoTimestamp == -1

HoursPerTick == 6

\* The last reading of the clock, in ticks.
MaxClock == 6

\* Date.now() at the start, in ticks.
StartClock == 1

HoursNow == cacheNow * HoursPerTick

\* isCacheValid past the read: "if (!timestamp) return false;
\* return Date.now() - timestamp < CACHE_DURATION_MS".
IsValid(timestamp, kind) ==
  /\ timestamp # NoTimestamp
  /\ timestamp # 0
  /\ HoursNow - timestamp < CACHE_DURATION_MS(kind)

\* "if (cached)": undefined is falsy, an object is truthy.
Truthy(cached) == cached # "none"

\* The catch block of the get function: getCachedNBAStats and
\* getCachedPlayersNBA go on to read the stale data, the others return null.
Caught ==
  IF cacheKind \in {"stats", "players"}
  THEN callPc' = "fallback" /\ callResult' = "pending"
  ELSE callPc' = "done" /\ callResult' = "null"

BeginCall ==
  /\ callPc \in {"idle", "done"}
  /\ callPc' = "readTs"
  /\ fetched' = "none"
  /\ netFailed' = FALSE
  /\ callResult' = "pending"
  /\ lastOp' = "none"
  /\ UNCHANGED <<cacheKind, storedData, storedTs, cacheNow, clearPc>>

\* const valid = await isCacheValid(): a failing read counts as not valid.
CheckValid ==
  /\ callPc = "readTs"
  /\ \E ok \in BOOLEAN :
       /\ lastOp' = IF ok THEN "ok" ELSE "threw"
       /\ callPc' = IF ok /\ IsValid(storedTs, cacheKind) THEN "readData" ELSE "fetch"
  /\ UNCHANGED <<cacheKind, storedData, storedTs, cacheNow, fetched, netFailed,
                 callResult, clearPc>>

\* const cached = await get(KEY); if (cached) return cached
ReadCached ==
  /\ callPc = "readData"
  /\ \E ok \in BOOLEAN :
       /\ lastOp' = IF ok THEN "ok" ELSE "threw"
       /\ IF ~ok THEN Caught
          ELSE IF Truthy(storedData) THEN callPc' = "done" /\ callResult' = storedData
          ELSE callPc' = "fetch" /\ callResult' = "pending"
  /\ UNCHANGED <<cacheKind, storedData, storedTs, cacheNow, fetched, netFailed, clearPc>>

\* The network request.  A failure rejects (stats, players), rejects or is
\* "!response.ok" (injuries: return null either way), or is swallowed by
\* fetchLast14DaysStats, which then returns {} (recent).
FetchFromApi ==
  /\ callPc = "fetch"
  /\ \E outcome \in {"v1", "v2", "failed"} :
       IF outcome # "failed"
       THEN /\ fetched' = outcome
            /\ netFailed' = FALSE
            /\ callPc' = "storeData"
            /\ callResult' = "pending"
       ELSE /\ netFailed' = TRUE
            /\ IF cacheKind = "recent"
               THEN fetched' = "empty" /\ callPc' = "storeData" /\ callResult' = "pending"
               ELSE fetched' = "none" /\ Caught
  /\ UNCHANGED <<cacheKind, storedData, storedTs, cacheNow, lastOp, clearPc>>

\* await set(KEY, stats)
StoreData ==
  /\ callPc = "storeData"
  /\ \E ok \in BOOLEAN :
       /\ lastOp' = IF ok THEN "ok" ELSE "threw"
       /\ IF ok THEN storedData' = fetched /\ callPc' = "storeTs" /\ callResult' = "pending"
          ELSE UNCHANGED storedData /\ Caught
  /\ UNCHANGED <<cacheKind, storedTs, cacheNow, fetched, netFailed, clearPc>>

\* await set(TIMESTAMP_KEY, Date.now()); return stats
StoreTimestamp ==
  /\ callPc = "storeTs"
  /\ \E ok \in BOOLEAN :
       /\ lastOp' = IF ok THEN "ok" ELSE "threw"
       /\ IF ok THEN storedTs' = HoursNow /\ callPc' = "done" /\ callResult' = fetched
          ELSE UNCHANGED storedTs /\ Caught
  /\ UNCHANGED <<cacheKind, storedData, cacheNow, fetched, netFailed, clearPc>>

\* return await get(KEY) || null, null when the read throws.
StaleFallback ==
  /\ callPc = "fallback"
  /\ \E ok \in BOOLEAN :
       /\ lastOp' = IF ok THEN "ok" ELSE "threw"
       /\ callResult' = IF ok /\ Truthy(storedData) THEN storedData ELSE "null"
  /\ callPc' = "done"
  /\ UNCHANGED <<cacheKind, storedData, storedTs, cacheNow, fetched, netFailed, clearPc>>

\* clearStatsCache, clearPlayerCache and clearRecentStatsCache are called;
\* the last one resets the timestamp only, and injuries have no clear.
BeginClear ==
  /\ clearPc = "idle"
  /\ cacheKind # "injuries"
  /\ clearPc' = IF cacheKind = "recent" THEN "ts" ELSE "data"
  /\ UNCHANGED <<cacheKind, storedData, storedTs, cacheNow, callPc, fetched, netFailed,
                 callResult, lastOp>>

\* await set(KEY, {})
ClearData ==
  /\ clearPc = "data"
  /\ \E ok \in BOOLEAN :
       IF ok THEN storedData' = "empty" /\ clearPc' = "ts"
       ELSE UNCHANGED storedData /\ clearPc' = "idle"
  /\ UNCHANGED <<cacheKind, storedTs, cacheNow, callPc, fetched, netFailed, callResult, lastOp>>

\* await set(TIMESTAMP_KEY, 0)
ClearTimestamp ==
  /\ clearPc = "ts"
  /\ \E ok \in BOOLEAN : IF ok THEN storedTs' = 0 ELSE UNCHANGED storedTs
  /\ clearPc' = "idle"
  /\ UNCHANGED <<cacheKind, storedData, cacheNow, callPc, fetched, netFailed, callResult, lastOp>>

CacheTick ==
  /\ cacheNow < MaxClock
  /\ cacheNow' = cacheNow + 1
  /\ UNCHANGED <<cacheKind, storedData, storedTs, callPc, fetched, netFailed, callResult,
                 lastOp, clearPc>>

InitC ==
  /\ cacheKind \in CacheKinds
  /\ storedData = "none"
  /\ storedTs = NoTimestamp
  /\ cacheNow = StartClock
  /\ callPc = "idle"
  /\ fetched = "none"
  /\ netFailed = FALSE
  /\ callResult = "pending"
  /\ lastOp = "none"
  /\ clearPc = "idle"
  /\ IdleZ
  /\ IdleT
  /\ IdleS
  /\ IdleR
  /\ IdleK
  /\ IdleV
  /\ IdleP

NextC == (BeginCall \/ CheckValid \/ ReadCached \/ FetchFromApi \/ StoreData \/ StoreTimestamp \/ StaleFallback \/ BeginClear \/ ClearData \/ ClearTimestamp \/ CacheTick) /\ UNCHANGED <<zVars, tVars, sVars, rVars, kVars, vVars, pVars>>

SpecC == InitC /\ [][NextC]_vars

\* The TTL the four functions are said to have, in hours.
ClaimedTTL == [stats |-> 24, players |-> 24, injuries |-> 24, recent |-> 6]

\* The stored timestamp is missing, zero or at least the TTL old.
TimestampStale ==
  storedTs = NoTimestamp \/ storedTs = 0 \/ HoursNow - storedTs >= ClaimedTTL[cacheKind]

CallSteps == callPc' # callPc

C25_FailedFetchNotCached ==
  [][ (cacheKind = "recent" /\ CallSteps /\ netFailed)
        => UNCHANGED <<storedData, storedTs>> ]_vars

-----------------------------------------------------------------------------
(* StreamingPlanner: the effect that loads the plan.  The props are         *)
(* numbered: inputs is the number of the props of the latest render, and a  *)
(* plan is known by the number of the props its load closed over.           *)

\* The most changes of the props in a run.
MaxInputs == 3

NoPlan == [given |-> FALSE]

NoError == [given |-> FALSE]

\* As MayWrite, without the flag.
MayWriteAlways(load) == TRUE

\* "if (isMounted)" in loadPlan.
MayWrite(load) == load.isMounted

\* return () => { isMounted = false }, for the effect run that is in place.
Cleanup(ls) == [i \in DOMAIN ls |-> [ls[i] EXCEPT !.isMounted = FALSE]]

\* The parent renders the component with new props; isReady is recomputed.
ChangeInputs ==
  /\ mounted
  /\ inputs < MaxInputs
  /\ inputs' = inputs + 1
  /\ isReady' \in BOOLEAN
  /\ effectPending' = TRUE
  /\ UNCHANGED <<mounted, effectRuns, loads, plan, error, loading>>

\* After a render whose dependencies changed: the cleanup of the previous
\* run, then "if (!isReady) return; let isMounted = true; loadPlan()" up to
\* its first await, that is setLoading(true) and setError(null).
RunEffect ==
  /\ mounted
  /\ effectPending
  /\ effectPending' = FALSE
  /\ effectRuns' = effectRuns + 1
  /\ IF isReady
     THEN /\ loads' = Append(Cleanup(loads),
                             [run |-> effectRuns + 1, inputs |-> inputs,
                              isMounted |-> TRUE, stage |-> "schedule"])
          /\ loading' = TRUE
          /\ error' = NoError
     ELSE /\ loads' = Cleanup(loads)
          /\ UNCHANGED <<loading, error>>
  /\ UNCHANGED <<mounted, inputs, isReady, plan>>

\* await Promise.all([fetchCurrentSleeperWeek(), getScheduleWindow(7)])
\* resolved.
ScheduleLoaded(i) ==
  /\ loads[i].stage = "schedule"
  /\ loads' = [loads EXCEPT ![i].stage = "matchups"]
  /\ UNCHANGED <<mounted, inputs, isReady, effectPending, effectRuns, plan, error, loading>>

\* await getLeagueMatchups resolved: buildStreamingPlan, "if (isMounted)
\* setPlan(nextPlan)", and the finally block.
PlanBuilt(i) ==
  /\ loads[i].stage = "matchups"
  /\ loads' = [loads EXCEPT ![i].stage = "done"]
  /\ IF MayWrite(loads[i])
     THEN /\ plan' = [given |-> TRUE, inputs |-> loads[i].inputs, run |-> loads[i].run]
          /\ loading' = FALSE
     ELSE UNCHANGED <<plan, loading>>
  /\ UNCHANGED <<mounted, inputs, isReady, effectPending, effectRuns, error>>

\* An await rejected or buildStreamingPlan threw: the catch block, "if
\* (isMounted) { setError(...); setPlan(null) }", and the finally block.
LoadFailed(i) ==
  /\ loads[i].stage \in {"schedule", "matchups"}
  /\ loads' = [loads EXCEPT ![i].stage = "failed"]
  /\ IF MayWrite(loads[i])
     THEN /\ error' = [given |-> TRUE, run |-> loads[i].run]
          /\ plan' = NoPlan
          /\ loading' = FALSE
     ELSE UNCHANGED <<plan, error, loading>>
  /\ UNCHANGED <<mounted, inputs, isReady, effectPending, effectRuns>>

\* The component unmounts: the cleanup of the effect run in place.
Unmount ==
  /\ mounted
  /\ mounted' = FALSE
  /\ effectPending' = FALSE
  /\ loads' = Cleanup(loads)
  /\ UNCHANGED <<inputs, isReady, effectRuns, plan, error, loading>>

InitP ==
  /\ mounted = TRUE
  /\ inputs = 0
  /\ isReady \in BOOLEAN
  /\ effectPending = TRUE
  /\ effectRuns = 0
  /\ loads = <<>>
  /\ plan = NoPlan
  /\ error = NoError
  /\ loading = FALSE
  /\ IdleZ
  /\ IdleT
  /\ IdleS
  /\ IdleR
  /\ IdleK
  /\ IdleV
  /\ IdleC

NextP == (ChangeInputs \/ RunEffect \/ (\E i \in DOMAIN loads : ScheduleLoaded(i)) \/ (\E i \in DOMAIN loads : PlanBuilt(i)) \/ (\E i \in DOMAIN loads : LoadFailed(i)) \/ Unmount) /\ UNCHANGED <<zVars, tVars, sVars, rVars, kVars, vVars, cVars>>

SpecP == InitP /\ [][NextP]_vars

\* The loads that finish in a step.
Finishing == {i \in DOMAIN loads : loads'[i].stage # loads[i].stage}

\* The plan body is rendered: "if (!isReady) return null" and
\* "!loading && !error && plan".
PlanShown == mounted /\ isReady /\ ~loading /\ ~error.given /\ plan.given

====
